---- MODULE Spec2Model ----
(***************************************************************************)
(* Model of the bounded, retrying, concurrent file fetcher of              *)
(* app/services/github.py (GithubFileLoader.load_files and the per-file    *)
(* task _fetch_file_with_retry), run on one asyncio event loop.            *)
(*                                                                         *)
(* One load_files call is modelled.  The steps of the coroutines between   *)
(* two suspension points are atomic; the suspension points are the         *)
(* semaphore acquisition, the remote request and the backoff sleep.  Time  *)
(* is discrete: Tick lets one time unit pass.                              *)
(*                                                                         *)
(* The remote side answers each attempt with a reply (status and kind of   *)
(* body) that _fetch_single_file classifies.  The synchronous methods      *)
(* _create_document and fetch_repository_files (with _parse_repo_name) are *)
(* modelled as direct calls recorded in `call` and `ret`.  Strings are     *)
(* sequences of characters.                                                *)
(***************************************************************************)
EXTENDS Integers, Sequences, FiniteSets, TLC

\* ------------------------------------------------------------------ bounds
MaxFiles == 2
MaxK == 2
MaxRetries == 2
MaxRepoLen == 3
MaxClock == 8
MaxPathLen == 3
MaxUrlLen == 4
MaxTree == 2
MaxVectors == 2
MaxSelected == 21

\* ------------------------------------------------------ program constants
DefaultRetries == 3
BatchSize == 10

\* -------------------------------------------------------- string literals
GITHUB == <<"h", "t", "t", "p", "s", ":", "/", "/", "g", "i", "t", "h", "u", "b", ".", "c", "o", "m", "/">>
BLOB == <<"/", "b", "l", "o", "b", "/">>
FILE == <<"f", "i", "l", "e">>
MAIN == <<"m", "a", "i", "n">>
HTTP_GITHUB == <<"h", "t", "t", "p", ":", "/", "/", "g", "i", "t", "h", "u", "b", ".", "c", "o", "m", "/">>
GITHUB_COM == <<"g", "i", "t", "h", "u", "b", ".", "c", "o", "m">>
API_REPOS == <<"h", "t", "t", "p", "s", ":", "/", "/", "a", "p", "i", ".", "g", "i", "t", "h", "u", "b", ".", "c", "o", "m", "/", "r", "e", "p", "o", "s", "/">>
GIT_TREES == <<"/", "g", "i", "t", "/", "t", "r", "e", "e", "s", "/">>
RECURSIVE_1 == <<"?", "r", "e", "c", "u", "r", "s", "i", "v", "e", "=", "1">>
TOKEN_ == <<"t", "o", "k", "e", "n", " ">>
ALL_FILES == <<"a", "l", "l", " ", "f", "i", "l", "e", "s">>

\* ------------------------------------------------------------ input sets
\* strings are sequences of one-character strings
PathNames == {<<"a">>, <<"/", "b">>}
Chars == {"o", "/"}

RECURSIVE SeqsUpTo(_, _)
SeqsUpTo(S, n) ==
    IF n = 0 THEN {<<>>}
    ELSE LET shorter == SeqsUpTo(S, n - 1)
         IN  shorter \cup {Append(s, x) : s \in {t \in shorter : Len(t) = n - 1}, x \in S}

RepoIds == SeqsUpTo(Chars, MaxRepoLen)

\* inputs of _create_document: the path of spec example 1 and every short
\* path over a letter, an upper-case letter, "/" and "."
DOCS_A_MD == <<"d", "o", "c", "s", "/", "a", ".", "m", "d">>
PathChars == {"d", "M", "/", "."}
AssemblePaths == {DOCS_A_MD} \cup SeqsUpTo(PathChars, MaxPathLen)
AssembleRepos == {<<"o", "/", "r">>, <<"o", "/", "o">>}
AssembleBranches == {MAIN, <<"d">>}

\* inputs of fetch_repository_files: a short form or a web URL over a letter
\* and "/", and two short forms with blanks
UrlChars == {"o", "/"}
RepoUrls ==
    {pre \o t : pre \in {<<>>, GITHUB, HTTP_GITHUB}, t \in SeqsUpTo(UrlChars, MaxUrlLen)}
        \cup {<<" ", "o", "/", "o", " ">>, <<"o", "/", " ">>}

\* the extension filter: omitted (None) or a list
NoFilter == [given |-> FALSE, list |-> <<>>]
Filter(l) == [given |-> TRUE, list |-> l]
Extensions == {<<".", "m">>, <<".", "M">>, <<".", "d">>}
Filters == {NoFilter} \cup {Filter(l) : l \in SeqsUpTo(Extensions, MaxTree)}

\* the tree of the repository: entries with a type and a path
TreeTypes == {"blob", "tree", "commit"}
TreePaths == {<<"d">>, <<"d", ".", "M">>, <<"M", ".", "d">>}
TreeEntries == [type : TreeTypes, path : TreePaths]
Trees == SeqsUpTo(TreeEntries, MaxTree)

\* what requests.get ends with: a response (the tree for 200, the text
\* with or without "rate limit"), or an exception
Response(st, t, rl) == [raised |-> "none", status |-> st, tree |-> t, rate_limit |-> rl]
Responses ==
    {Response(200, t, FALSE) : t \in Trees}
        \cup {Response(st, <<>>, rl) : st \in {403, 404, 500}, rl \in BOOLEAN}
        \cup {[Response(0, <<>>, FALSE) EXCEPT !.raised = x] :
                    x \in {"Timeout", "RequestException", "Exception"}}
PathLists == SeqsUpTo(PathNames, MaxFiles)

VARIABLES
    github_token,         \* self.github_token: None or a string
    headers,              \* self.headers
    wire,                 \* the header sets that the requests issued so far carried
    repos,                \* the repositories collection of the database
    vectors,              \* the vector collection of the database
    concurrent_requests,  \* self.concurrent_requests
    retries,              \* self.retries
    pc,                   \* position of load_files: idle, gathering, returned, raised
    repo_name,            \* argument repo_name, a sequence of characters
    file_paths,           \* argument file_paths
    script,               \* per position: number of attempts answered by replies[i].first
    replies,              \* per position: [first, then], the replies of the remote side;
                          \* for fetch_repository_files: the one response to its request
    semaphore,            \* value of the asyncio.Semaphore (free slots)
    session,              \* "none", "open", "closed": the aiohttp.ClientSession
    tpc,                  \* per task: new, waiting, fetching, sleeping, done
    attempt,              \* per task: loop variable `attempt`
    calls,                \* per task: number of _fetch_single_file calls made
    remaining,            \* per task: time units left of the current asyncio.sleep
    delays,               \* per task: the delays passed to asyncio.sleep, in order
    results,              \* per task: pending, doc, exc, none (what gather collects)
    finished,             \* the tasks that have ended, in the order in which they ended
    requests,             \* number of HTTP requests issued (session.get, requests.get)
    now,                  \* time units since the call, saturating at MaxClock
    documents,            \* returned documents
    failed_files,         \* returned failed paths
    error,                \* exception leaving load_files: "none" or "ValueError"
    call,                 \* a direct call of a synchronous method: its name and arguments
    ret,                  \* what that call returned
    url,                  \* run_ingestion: the repository input of the page
    selected,             \* run_ingestion: the texts of the ticked checkboxes
    opc,                  \* position of run_ingestion: idle, loop, loading, raised, done
    run_repo_name,        \* run_ingestion: its local repo_name
    loop_i,               \* run_ingestion: the next value of the loop variable i
    loaded_docs,          \* run_ingestion: loaded_docs
    failed_docs,          \* run_ingestion: failed_docs
    progress_bar,         \* progress_bar.value, a fraction
    step1_btn,            \* the start button: enabled or disabled
    notified,             \* the last ui.notify text, or "none"
    fetch_calls,          \* the file_paths of the load_github_files calls made, in order
    fetch_returns         \* the number of load_github_files calls that have ended

vars == <<github_token, headers, wire, repos, vectors, concurrent_requests, retries, pc, repo_name, file_paths, script,
          semaphore, session, tpc, attempt, calls, remaining, delays, results, finished,
          requests, now, documents, failed_files, error, replies, call, ret,
          url, selected, opc, run_repo_name, loop_i, loaded_docs, failed_docs,
          progress_bar, step1_btn, notified, fetch_calls, fetch_returns>>

config == <<github_token, headers, concurrent_requests, retries>>
traffic == <<requests, wire>>
store == <<repos, vectors>>
page == <<url, selected, opc, run_repo_name, loop_i, loaded_docs, failed_docs,
          progress_bar, step1_btn, notified, fetch_calls, fetch_returns>>
world == <<store, page>>
args == <<repo_name, file_paths, script, replies>>
direct == <<call, ret>>
taskvars == <<tpc, attempt, calls, remaining, delays, results, finished>>
outvars == <<documents, failed_files, error>>

\* the tasks created by the call, one per position of file_paths
Tasks == 1..Len(tpc)

\* ------------------------------------------------------- pure functions

\* re.match(r"^[^/]+/[^/]+$", repo_name): exactly one "/" with a non-empty
\* segment on each side.
RECURSIVE MatchSegment(_, _)
MatchSegment(s, i) ==
    \* longest run of non-"/" characters starting at position i; its end + 1
    IF i <= Len(s) /\ s[i] # "/" THEN MatchSegment(s, i + 1) ELSE i

ValidRepoName(s) ==
    LET afterOwner == MatchSegment(s, 1)
        afterRepo == MatchSegment(s, afterOwner + 1)
    IN  /\ afterOwner > 1
        /\ afterOwner <= Len(s)
        /\ s[afterOwner] = "/"
        /\ afterRepo > afterOwner + 1
        /\ afterRepo = Len(s) + 1

\* 2**attempt
RECURSIVE Pow2(_)
Pow2(n) == IF n <= 0 THEN 1 ELSE 2 * Pow2(n - 1)

\* (mutation: 2 * attempt)
Backoff_product(a) == 2 * a

\* the delay after the failed attempt `a`: 2**attempt
Backoff(a) == Pow2(a)

\* ------------------------------------------------------ string functions

\* s[i..j]
Slice(s, i, j) == [k \in 1..(j - i + 1) |-> s[i + k - 1]]

\* s.startswith(t), s.endswith(t)
StartsWith(s, t) == Len(t) <= Len(s) /\ Slice(s, 1, Len(t)) = t
EndsWith(s, t) == Len(t) <= Len(s) /\ Slice(s, Len(s) - Len(t) + 1, Len(s)) = t

\* s.strip(c) for a set cs of characters
RECURSIVE LStrip(_, _)
LStrip(s, cs) == IF s # <<>> /\ Head(s) \in cs THEN LStrip(Tail(s), cs) ELSE s

RECURSIVE RStrip(_, _)
RStrip(s, cs) ==
    IF s # <<>> /\ s[Len(s)] \in cs THEN RStrip(Slice(s, 1, Len(s) - 1), cs) ELSE s

Strip(s, cs) == RStrip(LStrip(s, cs), cs)

\* s.split(c): the pieces between the occurrences of the character c
RECURSIVE Split(_, _)
Split(s, c) ==
    IF \A k \in 1..Len(s) : s[k] # c THEN <<s>>
    ELSE LET k == CHOOSE k \in 1..Len(s) : s[k] = c /\ \A h \in 1..(k - 1) : s[h] # c
         IN  <<Slice(s, 1, k - 1)>> \o Split(Slice(s, k + 1, Len(s)), c)

\* c.join(parts)
RECURSIVE Join(_, _)
Join(parts, c) ==
    IF parts = <<>> THEN <<>>
    ELSE IF Len(parts) = 1 THEN parts[1]
    ELSE parts[1] \o <<c>> \o Join(Tail(parts), c)

\* str.lower() on the alphabet of the model
LowerChar(c) == IF c = "M" THEN "m" ELSE IF c = "D" THEN "d" ELSE c
Lower(s) == [k \in 1..Len(s) |-> LowerChar(s[k])]

\* c.join(parts) for a separator of any length
RECURSIVE JoinStr(_, _)
JoinStr(parts, sep) ==
    IF parts = <<>> THEN <<>>
    ELSE IF Len(parts) = 1 THEN parts[1]
    ELSE parts[1] \o sep \o JoinStr(Tail(parts), sep)

\* `t in s`
Contains(s, t) == \E k \in 1..(Len(s) - Len(t) + 1) : Slice(s, k, k + Len(t) - 1) = t

\* s.replace(old, new), for a non-empty old
RECURSIVE Replace(_, _, _)
Replace(s, old, new) ==
    IF Len(s) < Len(old) THEN s
    ELSE IF StartsWith(s, old)
    THEN new \o Replace(Slice(s, Len(old) + 1, Len(s)), old, new)
    ELSE <<Head(s)>> \o Replace(Tail(s), old, new)

\* the whitespace of the model's alphabet, for str.strip()
Whitespace == {" "}

\* Optional values
None == [some |-> FALSE]
Some(v) == [some |-> TRUE, value |-> v]

\* _parse_repo_name: "owner/repo" or None
ParseRepoName(repo_url) ==
    IF Contains(repo_url, GITHUB_COM)
    THEN LET parts == Split(Strip(Replace(Replace(repo_url, GITHUB, <<>>), HTTP_GITHUB, <<>>),
                                  {"/"}), "/")
         IN  IF Len(parts) >= 2 THEN Some(parts[1] \o <<"/">> \o parts[2]) ELSE None
    ELSE LET parts == Split(Strip(repo_url, Whitespace), "/")
         IN  IF /\ Len(parts) = 2
                /\ \A k \in 1..Len(parts) : Strip(parts[k], Whitespace) # <<>>
             THEN Some(Strip(repo_url, Whitespace))
             ELSE None

\* f"https://api.github.com/repos/{repo_name}/git/trees/{branch}?recursive=1"
ApiUrl(repo, branch) == API_REPOS \o repo \o GIT_TREES \o branch \o RECURSIVE_1

\* the parts of Path(p) for a relative p: empty and "." components are dropped
PathParts(p) == SelectSeq(Split(p, "/"), LAMBDA x : x # <<>> /\ x # <<".">>)

\* Path(p).name
PathName(p) ==
    LET parts == PathParts(p) IN IF parts = <<>> THEN <<>> ELSE parts[Len(parts)]

\* Path(p).suffix: from the last "." of the name, unless the name starts or
\* ends with it
PathSuffix(p) ==
    LET name == PathName(p)
        dots == {k \in 1..Len(name) : name[k] = "."}
    IN  IF dots = {} THEN <<>>
        ELSE LET i == CHOOSE k \in dots : \A h \in dots : h <= k
             IN  IF 1 < i /\ i < Len(name) THEN Slice(name, i, Len(name)) ELSE <<>>

\* str(Path(p).parent)
PathParent(p) ==
    LET parts == PathParts(p)
    IN  IF Len(parts) <= 1 THEN <<".">> ELSE Join(Slice(parts, 1, Len(parts) - 1), "/")

\* (mutation: the parent is not compared with Path("."))
Directory_plain(p) == PathParent(p)

\* `str(Path(file_path).parent) if Path(file_path).parent != Path(".") else ""`
Directory(p) == IF Len(PathParts(p)) <= 1 THEN <<>> ELSE PathParent(p)

\* (mutation: the repository is left out of the identifier)
DocId_short(repo, branch, path) == branch \o <<":">> \o path

\* f"{repo_name}:{branch}:{file_path}"
DocId(repo, branch, path) == repo \o <<":">> \o branch \o <<":">> \o path

\* f"https://github.com/{repo_name}/blob/{branch}/{file_path}"
HtmlUrl(repo, branch, path) ==
    GITHUB \o repo \o BLOB \o branch \o <<"/">> \o path

\* file_data.get(key, default)
Get(file_data, key, default) ==
    IF key \in DOMAIN file_data THEN file_data[key] ELSE default

\* _create_document: the Document of one fetched file
CreateDocument(content, file_path, repo, branch, file_data) ==
    [text |-> content,
     doc_id |-> DocId(repo, branch, file_path),
     file_path |-> file_path,
     file_name |-> PathName(file_path),
     file_extension |-> Lower(PathSuffix(file_path)),
     directory |-> Directory(file_path),
     repo |-> repo,
     branch |-> branch,
     sha |-> Get(file_data, "sha", <<>>),
     size |-> Get(file_data, "size", 0),
     url |-> HtmlUrl(repo, branch, file_path),
     raw_url |-> Get(file_data, "download_url", <<>>),
     type |-> Get(file_data, "type", FILE)]

NoDocument == [file_path |-> <<>>, repo |-> <<>>]
Pending == [kind |-> "pending", doc |-> NoDocument, exc |-> "none"]
Raised == [kind |-> "exc", doc |-> NoDocument, exc |-> "Exception"]
ReturnedNone == [kind |-> "none", doc |-> NoDocument, exc |-> "none"]
Fetched(d) == [kind |-> "doc", doc |-> d, exc |-> "none"]
RaisedWith(e) == [Raised EXCEPT !.exc = e]

\* -------------------------------------------------------- the remote side

\* the JSON of a file of the contents API
FileData == [sha |-> <<"x">>, size |-> 5, download_url |-> <<"u">>, type |-> FILE]

\* bodies of a reply: a JSON list (a directory); a file whose base64 content
\* is UTF-8 text, is bytes that are no UTF-8 text, or is no base64 at all; a
\* file with another encoding
Bodies == {"list", "base64_utf8", "base64_bytes", "base64_broken", "other"}
Statuses == {200, 201, 403, 404, 500}

Reply(st, b) == [status |-> st, body |-> b]

\* every reply the model distinguishes: each body with 200, a file with the
\* other statuses
Replies == {Reply(200, b) : b \in Bodies} \cup {Reply(st, "base64_utf8") : st \in Statuses}

\* a remote side that fails with a server error, then serves the file
FailThenFile == [first |-> Reply(500, "base64_utf8"), then |-> Reply(200, "base64_utf8")]

\* what content_bytes.decode gives
TEXT == <<"h", "i">>
LATIN == <<"h", "?">>

Decoded(t) == [kind |-> "text", text |-> t]

\* (mutation: every successful status passes)
StatusOk_2xx(st) == 200 <= st /\ st < 300

\* the negation of `response.status != 200`
StatusOk(st) == st = 200

\* (mutation: the directory case is not handled)
IsList_never(b) == FALSE

\* isinstance(data, list)
IsList(b) == b = "list"

\* the try/except around b64decode and decode("utf-8"): the text, or the
\* exception of the handler when content_bytes was never bound
DecodeContent(b) ==
    IF b = "base64_utf8" THEN Decoded(TEXT)
    ELSE IF b = "base64_bytes" THEN Decoded(LATIN)
    ELSE RaisedWith("UnboundLocalError")

\* _fetch_single_file on one reply: a Document or the exception raised
FetchSingleFile(reply, file_path, repo, branch) ==
    LET clean_path == Strip(file_path, {"/"})
    IN  IF reply.status = 404 THEN RaisedWith("FileNotFoundError")
        ELSE IF reply.status = 403 THEN RaisedWith("PermissionError")
        ELSE IF ~StatusOk(reply.status) THEN RaisedWith("Exception")
        ELSE IF IsList(reply.body) THEN RaisedWith("ValueError: directory")
        ELSE IF reply.body \in {"base64_utf8", "base64_bytes", "base64_broken"}
        THEN LET content_text == DecodeContent(reply.body)
             IN  IF content_text.kind = "exc" THEN content_text
                 ELSE Fetched(CreateDocument(content_text.text, clean_path, repo, branch, FileData))
        ELSE RaisedWith("ValueError: encoding")

\* (mutation: only transport errors are caught and retried)
Caught_transient(e) == e \in {"Exception", "PermissionError"}

\* `except Exception as e` of the retry loop: every exception of the attempt
Caught(e) == TRUE

\* (mutation: entries of every type are kept)
IsBlob_any(item) == TRUE

\* item["type"] == "blob"
IsBlob(item) == item.type = "blob"

\* any(file_path.lower().endswith(ext.lower()) for ext in file_extensions)
HasExtension(file_path, exts) ==
    \E k \in 1..Len(exts) : EndsWith(Lower(file_path), Lower(exts[k]))

\* the loop over data.get("tree", []): filtered_files after the first n entries
RECURSIVE FilteredFiles(_, _, _)
FilteredFiles(tree, file_extensions, n) ==
    IF n = 0 THEN <<>>
    ELSE LET item == tree[n]
             before == FilteredFiles(tree, file_extensions, n - 1)
         IN  IF ~IsBlob(item) THEN before
             ELSE IF ~file_extensions.given THEN Append(before, item.path)
             ELSE IF HasExtension(item.path, file_extensions.list) THEN Append(before, item.path)
             ELSE before

\* ", ".join(file_extensions) if file_extensions else "all files"
ExtStr(file_extensions) ==
    IF file_extensions.given /\ file_extensions.list # <<>>
    THEN JoinStr(file_extensions.list, <<",", " ">>)
    ELSE ALL_FILES

\* a return of fetch_repository_files: (list_of_file_paths, status_message);
\* the message is its text pattern and the values formatted into it
Returned(files, message) == [fn |-> "returned", files |-> files, message |-> message]
InvalidFormat == [kind |-> "Invalid GitHub URL format"]

\* (mutation: the rate-limit text is not looked for)
RateLimited_never(resp) == FALSE

\* "rate limit" in response.text.lower()
RateLimited(resp) == resp.rate_limit

\* (mutation: a failed request is issued again)
RequestAgain_onError(resp) == resp.raised # "none" \/ resp.status # 200

\* requests.get is called once, outside any loop: no outcome of the request
\* leads to another request
RequestAgain(resp) == FALSE

\* fetch_repository_files from the response on
ListerResult(resp, file_extensions, repo, branch) ==
    IF resp.raised = "Timeout" THEN Returned(<<>>, [kind |-> "Request timeout"])
    ELSE IF resp.raised = "RequestException" THEN Returned(<<>>, [kind |-> "Network error"])
    ELSE IF resp.raised # "none" THEN Returned(<<>>, [kind |-> "Unexpected error"])
    ELSE IF resp.status = 200
    THEN LET filtered_files == FilteredFiles(resp.tree, file_extensions, Len(resp.tree))
         IN  IF filtered_files # <<>>
             THEN Returned(filtered_files,
                           [kind |-> "Found", count |-> Len(filtered_files),
                            ext_str |-> ExtStr(file_extensions), repo |-> repo, branch |-> branch])
             ELSE Returned(<<>>,
                           [kind |-> "No files", ext_str |-> ExtStr(file_extensions),
                            repo |-> repo, branch |-> branch])
    ELSE IF resp.status = 404
    THEN Returned(<<>>, [kind |-> "not found", repo |-> repo, branch |-> branch])
    ELSE IF resp.status = 403
    THEN IF RateLimited(resp) THEN Returned(<<>>, [kind |-> "rate limit exceeded"])
         ELSE Returned(<<>>, [kind |-> "Access denied"])
    ELSE Returned(<<>>, [kind |-> "GitHub API Error", status |-> resp.status])

\* (mutation: range(self.retries))
InRange_short(a) == 0 <= a /\ a < retries

\* range(self.retries + 1) has an element `a`
InRange(a) == 0 <= a /\ a < retries + 1

\* the scripts of the remote side for n files: for each position the number
\* of attempts that raise before one succeeds (retries + 1: every attempt raises)
Scripts(n) == [1..n -> 0..(IF retries + 1 > 0 THEN retries + 1 ELSE 0)]

\* (mutation: the early return is missing)
NoPaths_never(fp) == FALSE

\* `not file_paths`
NoPaths(fp) == fp = <<>>

\* (mutation: gives up one attempt early)
LastAttempt_early(a) == a + 1 >= retries

\* `attempt == self.retries`
LastAttempt(a) == a = retries

\* (mutation: one task per distinct path)
TaskCount_distinct(fp) == Cardinality({fp[k] : k \in 1..Len(fp)})

\* `for file_path in file_paths: ... tasks.append(task)`: the number of tasks
TaskCount(fp) == Len(fp)

\* asyncio.Semaphore(self.concurrent_requests)
SemaphoreValue == concurrent_requests

\* (mutation: the slot is never given back)
Release_leak(s) == s

\* leaving `async with semaphore`, by return or by exception: the value after
\* the release
Release(s) == s + 1

\* (mutation: one slot too many)
Locked_late == semaphore < 0

\* Semaphore.locked(): no free slot
Locked == semaphore <= 0

\* (mutation: only `result is None` is tested, an exception is kept as a document)
RECURSIVE DocumentsUpTo_notNone(_)
DocumentsUpTo_notNone(n) ==
    IF n = 0 THEN <<>>
    ELSE IF results[n].kind # "none"
         THEN Append(DocumentsUpTo_notNone(n - 1), results[n].doc)
         ELSE DocumentsUpTo_notNone(n - 1)

\* the loop `for i, result in enumerate(results)` of load_files, up to position n
\* (mutation: the Documents are collected as the tasks end)
RECURSIVE DocumentsUpTo_asCompleted(_)
DocumentsUpTo_asCompleted(n) ==
    IF n = 0 THEN <<>>
    ELSE IF results[finished[n]].kind = "doc"
         THEN Append(DocumentsUpTo_asCompleted(n - 1), results[finished[n]].doc)
         ELSE DocumentsUpTo_asCompleted(n - 1)

RECURSIVE DocumentsUpTo(_)
DocumentsUpTo(n) ==
    IF n = 0 THEN <<>>
    ELSE IF results[n].kind = "doc"
         THEN Append(DocumentsUpTo(n - 1), results[n].doc)
         ELSE DocumentsUpTo(n - 1)

\* (mutation: the isinstance(result, Exception) branch is missing)
RECURSIVE FailedUpTo_noneOnly(_)
FailedUpTo_noneOnly(n) ==
    IF n = 0 THEN <<>>
    ELSE IF results[n].kind = "none"
         THEN Append(FailedUpTo_noneOnly(n - 1), file_paths[n])
         ELSE FailedUpTo_noneOnly(n - 1)

RECURSIVE FailedUpTo(_)
FailedUpTo(n) ==
    IF n = 0 THEN <<>>
    ELSE IF results[n].kind \in {"exc", "none"}
         THEN Append(FailedUpTo(n - 1), file_paths[n])
         ELSE FailedUpTo(n - 1)

\* what can happen inside ingest_documents_async: the vector store cannot be
\* created, the indexing raises, the indexing succeeds and the metadata store
\* accepts or refuses the record
IngestOutcomes == {"create raises", "index raises", "stored", "store fails"}

\* `if self.github_token`, `if repo_name`: an Optional string that is neither
\* None nor empty
Truthy(token) == token.some /\ token.value # <<>>

\* ------------------------------------------- the database and the ingestion

\* a Document as ingest_documents_async may get it: with or without the repo
\* and file_path entries of its metadata
Doc(path, repo) == [doc_id |-> DocId(repo, MAIN, path), text |-> TEXT,
                    file_path |-> path, repo |-> repo]
UntaggedDoc(path) == [doc_id |-> path, text |-> TEXT, file_path |-> path]
BareDoc(id) == [doc_id |-> id, text |-> TEXT]

RepoNames == {<<"o", "/", "o">>, <<"o", "/", "r">>}
IngestDocs == {Doc(<<"a">>, <<"o", "/", "r">>), UntaggedDoc(<<"a">>), BareDoc(<<"b">>)}
IngestDocLists == SeqsUpTo(IngestDocs, MaxVectors)
VectorDocs == {Doc(<<"a">>, n) : n \in RepoNames} \cup {UntaggedDoc(<<"a">>)}
StoreFiles == {<<>>, <<<<"a">>>>, <<<<"b">>, <<"a">>>>}

\* what datetime.now().strftime(...) gives at the call
Stamps == {"2026-01-01 00:00:00", "2026-01-02 00:00:00"}

\* the repo_doc of store_ingested_repo
RepoDoc(name, files, stamp) ==
    [id |-> name, repo_name |-> name, ingested_files |-> files,
     file_count |-> Len(files), last_updated |-> stamp]

\* (mutation: insert_one instead of the upsert)
ReplaceOne_insert(coll, id, doc) == coll \cup {doc}

\* collection.replace_one({"_id": id}, doc, upsert=True)
ReplaceOne(coll, id, doc) ==
    IF \E r \in coll : r.id = id
    THEN (coll \ {CHOOSE r \in coll : r.id = id}) \cup {doc}
    ELSE coll \cup {doc}

\* the filter {"metadata.repo": name}
HasRepo(d, name) == "repo" \in DOMAIN d /\ d.repo = name

\* (mutation: delete_many without filter)
DeleteMany_all(coll, name) == [left |-> <<>>, deleted_count |-> Len(coll)]

\* collection.delete_many({"metadata.repo": name}): what is left, and the count
DeleteMany(coll, name) ==
    [left |-> SelectSeq(coll, LAMBDA d : ~HasRepo(d, name)),
     deleted_count |-> Len(SelectSeq(coll, LAMBDA d : HasRepo(d, name)))]

\* collection.delete_one({"_id": id})
DeleteOne(coll, id) ==
    IF \E r \in coll : r.id = id
    THEN [left |-> coll \ {CHOOSE r \in coll : r.id = id}, deleted_count |-> 1]
    ELSE [left |-> coll, deleted_count |-> 0]

\* the result dict of delete_repository_data
DeleteResult(success, message, docs, record) ==
    [fn |-> "returned", success |-> success, message |-> message,
     vector_docs_deleted |-> docs, repo_record_deleted |-> record]

\* (mutation: the metadata is left as it came)
EnsureRepo_asGiven(doc, name) == doc

\* `if repo_name and "repo" not in doc.metadata: doc.metadata["repo"] = repo_name`,
\* repo_name an Optional string
EnsureRepo(doc, name) ==
    IF Truthy(name) /\ "repo" \notin DOMAIN doc
    THEN [k \in DOMAIN doc \cup {"repo"} |-> IF k = "repo" THEN name.value ELSE doc[k]]
    ELSE doc

\* (mutation: every path is appended)
Track_all(files, file_path) == Append(files, file_path)

\* `if file_path not in ingested_files: ingested_files.append(file_path)`
Track(files, file_path) ==
    IF \E k \in 1..Len(files) : files[k] = file_path THEN files ELSE Append(files, file_path)

\* ingested_files after the first n documents of the loop
RECURSIVE IngestedFiles(_, _)
IngestedFiles(docs, n) ==
    IF n = 0 THEN <<>>
    ELSE Track(IngestedFiles(docs, n - 1), Get(docs[n], "file_path", docs[n].doc_id))

\* ------------------------------------------------------- the orchestrator

\* a value of progress_bar: the number num / den
Fraction(n, d) == [num |-> n, den |-> d]

\* a <= b for two such values
AtMost(a, b) == a.num * b.den <= b.num * a.den

\* `(i + len(batch)) / total_files * 0.5`, with done = i + len(batch)
Progress(done, total) == Fraction(done, 2 * total)

\* `url.strip().replace('https://github.com/', '').strip('/')`
RunRepoName(u) == Strip(Replace(Strip(u, Whitespace), GITHUB, <<>>), {"/"})

\* the checkbox texts: one path per letter
Letters == <<"a", "b", "c", "d", "e", "f", "g", "h", "i", "j", "k", "l", "m",
             "n", "o", "p", "q", "r", "s", "t", "u", "v", "w", "x", "y", "z">>
FirstPaths(n) == [k \in 1..n |-> <<Letters[k]>>]
Selections == {FirstPaths(n) : n \in 0..MaxSelected}

\* the repository inputs of a run: the web URL and the short form of o/o,
\* with and without a trailing "/", the http URL, and the web URL of a
\* directory of the repository
RunUrls == {GITHUB \o <<"o", "/", "o">>, <<"o", "/", "o">>, <<"o", "/", "o", "/">>,
            HTTP_GITHUB \o <<"o", "/", "o">>, GITHUB \o <<"o", "/", "o", "/", "d">>}

\* (mutation: the slices overlap by one path)
Batch_overlap(sel, i) ==
    SubSeq(sel, (IF i > 0 THEN i ELSE 1), (IF i + BatchSize < Len(sel) THEN i + BatchSize ELSE Len(sel)))

\* `selected[i:i+batch_size]`, i counted from 0
Batch(sel, i) ==
    SubSeq(sel, i + 1, (IF i + BatchSize < Len(sel) THEN i + BatchSize ELSE Len(sel)))

\* how the files of a batch of n paths can end: every file loaded, every file
\* failed, the first failed, only the first loaded
BatchOutcomes(n) ==
    {[j \in 1..n |-> "doc"], [j \in 1..n |-> "exc"],
     [j \in 1..n |-> IF j = 1 THEN "exc" ELSE "doc"],
     [j \in 1..n |-> IF j = 1 THEN "doc" ELSE "exc"]}

\* (mutation: a path whose task raised is in neither list)
FailedOf_noneOnly(res, paths) ==
    LET kept == SelectSeq([j \in 1..Len(paths) |-> [path |-> paths[j], result |-> res[j]]],
                          LAMBDA x : x.result.kind = "none")
    IN  [j \in 1..Len(kept) |-> kept[j].path]

\* the failed_files of load_files for the gathered results `res`
FailedOf(res, paths) ==
    LET kept == SelectSeq([j \in 1..Len(paths) |-> [path |-> paths[j], result |-> res[j]]],
                          LAMBDA x : x.result.kind \in {"exc", "none"})
    IN  [j \in 1..Len(kept) |-> kept[j].path]

\* the documents of load_files for the gathered results `res`
DocumentsOf(res) ==
    LET kept == SelectSeq(res, LAMBDA x : x.kind = "doc")
    IN  [j \in 1..Len(kept) |-> kept[j].doc]

\* load_github_files(repo_name, file_paths): a new loader with the default
\* retries runs load_files on the branch main; outcomes[j] says how the
\* task of file_paths[j] ended
LoadGithubFiles(rn, fp, outcomes) ==
    IF NoPaths(fp) THEN [fn |-> "returned", documents |-> <<>>, failed_files |-> <<>>]
    ELSE IF ~ValidRepoName(rn) THEN [fn |-> "raised", error |-> "ValueError"]
    ELSE LET res == [j \in 1..Len(fp) |->
                        IF outcomes[j] = "doc"
                        THEN Fetched(CreateDocument(TEXT, Strip(fp[j], {"/"}), rn, MAIN, FileData))
                        ELSE Raised]
         IN  [fn |-> "returned", documents |-> DocumentsOf(res),
              failed_files |-> FailedOf(res, fp)]

\* `for doc in docs: if "repo" not in doc.metadata: doc.metadata["repo"] = repo_name`
TagBatch(docs, name) ==
    [j \in 1..Len(docs) |->
        IF "repo" \in DOMAIN docs[j] THEN docs[j]
        ELSE [k \in DOMAIN docs[j] \cup {"repo"} |-> IF k = "repo" THEN name ELSE docs[j][k]]]

\* (mutation: a run with a failed file does not ingest)
ShouldIngest_allLoaded(loaded, failed) == loaded # <<>> /\ failed = <<>>

\* `if loaded_docs:`
ShouldIngest(loaded, failed) == loaded # <<>>

\* (mutation: the Authorization header is never set)
Headers_anonymous(token) ==
    [Accept |-> "application/vnd.github.v3+json", UserAgent |-> "LlamaIndex-GitHub-Loader/1.0"]

\* self.headers as __init__ sets it up
Headers(token) ==
    IF Truthy(token)
    THEN [Accept |-> "application/vnd.github.v3+json",
          UserAgent |-> "LlamaIndex-GitHub-Loader/1.0",
          Authorization |-> TOKEN_ \o token.value]
    ELSE [Accept |-> "application/vnd.github.v3+json",
          UserAgent |-> "LlamaIndex-GitHub-Loader/1.0"]

\* aiohttp.ClientSession(headers=self.headers, ...): what every request of the
\* session carries
SessionHeaders == headers

\* one request leaves with the headers h
Send(h) ==
    /\ requests' = requests + 1
    /\ wire' = wire \cup {h}

\* the tokens a loader is constructed with
Tokens == {None, Some(<<>>), Some(<<"t">>)}

\* ------------------------------------------------------------------ Init

NoCall == [fn |-> "none"]

\* a constructed loader, no call made yet (the database apart)
Loader(Ks, Rs, Ts) ==
    /\ github_token \in Ts
    /\ headers = Headers(github_token)
    /\ wire = {}
    /\ concurrent_requests \in Ks
    /\ retries \in Rs
    /\ pc = "idle"
    /\ repo_name = <<>>
    /\ file_paths = <<>>
    /\ script = <<>>
    /\ replies = <<>>
    /\ call = NoCall
    /\ ret = NoCall
    /\ semaphore = 0
    /\ session = "none"
    /\ tpc = <<>>
    /\ attempt = <<>>
    /\ calls = <<>>
    /\ remaining = <<>>
    /\ delays = <<>>
    /\ results = <<>>
    /\ finished = <<>>
    /\ requests = 0
    /\ now = 0
    /\ documents = <<>>
    /\ failed_files = <<>>
    /\ error = "none"
    /\ url = <<>>
    /\ selected = <<>>
    /\ opc = "idle"
    /\ run_repo_name = <<>>
    /\ loop_i = 0
    /\ loaded_docs = <<>>
    /\ failed_docs = <<>>
    /\ progress_bar = Fraction(0, 1)
    /\ step1_btn = "enabled"
    /\ notified = "none"
    /\ fetch_calls = <<>>
    /\ fetch_returns = 0

\* a constructed loader and an empty database
Constructed(Ks, Rs, Ts) ==
    /\ Loader(Ks, Rs, Ts)
    /\ repos = {}
    /\ vectors = <<>>

\* any limit and any retries setting, the negative one included
Init == Constructed(0..MaxK, (-1)..MaxRetries, {None})

\* --------------------------------------------------------------- actions

\* load_files up to its first suspension: the empty-list return, the
\* repo_name check, then semaphore, session and one task per path, and the
\* await of asyncio.gather.
LoadFilesCall(rn, fp, sc, rp) ==
            /\ pc = "idle"
            /\ repo_name' = rn
            /\ file_paths' = fp
            /\ script' = sc
            /\ replies' = rp
            /\ IF NoPaths(fp)
               THEN /\ pc' = "returned"
                    /\ documents' = <<>>
                    /\ failed_files' = <<>>
                    /\ UNCHANGED <<semaphore, session, taskvars, error>>
               ELSE IF ~ValidRepoName(rn)
               THEN /\ pc' = "raised"
                    /\ error' = "ValueError"
                    /\ UNCHANGED <<semaphore, session, taskvars, documents, failed_files>>
               ELSE /\ pc' = "gathering"
                    /\ semaphore' = SemaphoreValue
                    /\ session' = "open"
                    /\ tpc' = [i \in 1..TaskCount(fp) |-> "new"]
                    /\ attempt' = [i \in 1..TaskCount(fp) |-> 0]
                    /\ calls' = [i \in 1..TaskCount(fp) |-> 0]
                    /\ remaining' = [i \in 1..TaskCount(fp) |-> 0]
                    /\ delays' = [i \in 1..TaskCount(fp) |-> <<>>]
                    /\ results' = [i \in 1..TaskCount(fp) |-> Pending]
                    /\ finished' = <<>>
                    /\ UNCHANGED outvars
            /\ UNCHANGED <<config, world, direct, traffic, now>>

\* a call with any repository name, any path list and any remote behaviour
LoadFiles ==
    /\ pc = "idle"
    /\ \E rn \in RepoIds, fp \in PathLists :
          \E sc \in Scripts(Len(fp)) :
              LoadFilesCall(rn, fp, sc, [i \in 1..Len(fp) |-> FailThenFile])

\* a call for two files of a well-formed repository
LoadTwoFiles ==
    /\ pc = "idle"
    /\ \E sc \in Scripts(2) :
          LoadFilesCall(<<"o", "/", "o">>, <<<<"a">>, <<"b">>>>, sc, [i \in 1..2 |-> FailThenFile])

\* the task holds a slot and enters the for loop: the first
\* _fetch_single_file call, or `return None` when the range is empty
EnterLoop(i) ==
    IF InRange(0)
    THEN /\ semaphore' = semaphore - 1
         /\ tpc' = [tpc EXCEPT ![i] = "fetching"]
         /\ attempt' = [attempt EXCEPT ![i] = 0]
         /\ calls' = [calls EXCEPT ![i] = @ + 1]
         /\ Send(SessionHeaders)
         /\ UNCHANGED <<results, finished>>
    ELSE /\ semaphore' = Release(semaphore - 1)
         /\ tpc' = [tpc EXCEPT ![i] = "done"]
         /\ results' = [results EXCEPT ![i] = ReturnedNone]
         /\ finished' = Append(finished, i)
         /\ UNCHANGED <<attempt, calls, traffic>>

\* first run of a task (tasks first run in creation order): `async with
\* semaphore` takes a slot or suspends
TaskStart(i) ==
    /\ pc = "gathering"
    /\ tpc[i] = "new"
    /\ \A j \in 1..(i - 1) : tpc[j] # "new"
    /\ IF Locked
       THEN /\ tpc' = [tpc EXCEPT ![i] = "waiting"]
            /\ UNCHANGED <<semaphore, attempt, calls, results, finished, traffic>>
       ELSE EnterLoop(i)
    /\ UNCHANGED <<config, world, direct, args, pc, session, remaining, delays, now, outvars>>

\* a suspended acquire gets a freed slot
Acquire(i) ==
    /\ pc = "gathering"
    /\ tpc[i] = "waiting"
    /\ ~Locked
    /\ EnterLoop(i)
    /\ UNCHANGED <<config, world, direct, args, pc, session, remaining, delays, now, outvars>>

\* (mutation: every task reads the replies of the last path, as a closure
\* over the loop variable would)
ReplyAt_lastPath(i) ==
    IF attempt[i] < script[Len(script)] THEN replies[Len(replies)].first
    ELSE replies[Len(replies)].then

\* the reply to the current attempt of position i
ReplyAt(i) == IF attempt[i] < script[i] THEN replies[i].first ELSE replies[i].then

\* what the current _fetch_single_file call of position i ends with
Outcome(i) == FetchSingleFile(ReplyAt(i), file_paths[i], repo_name, MAIN)

\* every task created before the gather has had its first run: the event
\* loop runs the ready tasks before it handles a response
AllStarted == \A j \in Tasks : tpc[j] # "new"

\* _fetch_single_file returns a Document: the task returns it and frees its slot
FetchReturns(i) ==
    /\ pc = "gathering"
    /\ tpc[i] = "fetching"
    /\ AllStarted
    /\ Outcome(i).kind = "doc"
    /\ results' = [results EXCEPT ![i] = Outcome(i)]
    /\ tpc' = [tpc EXCEPT ![i] = "done"]
    /\ finished' = Append(finished, i)
    /\ semaphore' = Release(semaphore)
    /\ UNCHANGED <<config, world, direct, args, pc, session, attempt, calls, remaining, delays,
                   traffic, now, outvars>>

\* _fetch_single_file raises: re-raise after the last attempt, else sleep
FetchRaises(i) ==
    /\ pc = "gathering"
    /\ tpc[i] = "fetching"
    /\ AllStarted
    /\ Outcome(i).kind = "exc"
    /\ IF ~Caught(Outcome(i).exc) \/ LastAttempt(attempt[i])
       THEN /\ results' = [results EXCEPT ![i] = Outcome(i)]
            /\ tpc' = [tpc EXCEPT ![i] = "done"]
            /\ finished' = Append(finished, i)
            /\ semaphore' = Release(semaphore)
            /\ UNCHANGED <<remaining, delays>>
       ELSE /\ tpc' = [tpc EXCEPT ![i] = "sleeping"]
            /\ remaining' = [remaining EXCEPT ![i] = Backoff(attempt[i])]
            /\ delays' = [delays EXCEPT ![i] = Append(@, Backoff(attempt[i]))]
            /\ UNCHANGED <<results, finished, semaphore>>
    /\ UNCHANGED <<config, world, direct, args, pc, session, attempt, calls, traffic, now, outvars>>

\* a call for one or two files of a well-formed repository, each answered
\* with the same reply on every attempt
LoadKinds ==
    /\ pc = "idle"
    /\ \E n \in 1..2 :
          \E fp \in [1..n -> PathNames], first \in [1..n -> Replies] :
              LoadFilesCall(<<"o", "/", "o">>, fp,
                            [i \in 1..n |-> IF retries + 1 > 0 THEN retries + 1 ELSE 0],
                            [i \in 1..n |-> [first |-> first[i], then |-> first[i]]])

\* a direct call of _create_document, as _fetch_single_file makes it: the
\* path has no "/" at either end
CreateDocumentCall ==
    /\ call = NoCall
    /\ \E repo \in AssembleRepos, branch \in AssembleBranches, path \in AssemblePaths :
          /\ call' = [fn |-> "_create_document", file_path |-> Strip(path, {"/"}),
                       repo_name |-> repo, branch |-> branch]
          /\ ret' = CreateDocument(TEXT, Strip(path, {"/"}), repo, branch, FileData)
    /\ UNCHANGED <<config, world, args, pc, semaphore, session, taskvars, traffic, now, outvars>>

\* fetch_repository_files up to its request: the repository name is parsed;
\* None returns at once, else the tree request is issued
FetchRepositoryFiles(repo_url, file_extensions, branch) ==
    /\ call = NoCall
    /\ LET parsed == ParseRepoName(repo_url)
       IN  IF ~parsed.some
           THEN /\ call' = [fn |-> "fetch_repository_files", repo_url |-> repo_url,
                            file_extensions |-> file_extensions, branch |-> branch,
                            repo_name |-> <<>>, api_url |-> <<>>]
                /\ ret' = Returned(<<>>, InvalidFormat)
                /\ UNCHANGED traffic
           ELSE /\ call' = [fn |-> "fetch_repository_files", repo_url |-> repo_url,
                            file_extensions |-> file_extensions, branch |-> branch,
                            repo_name |-> parsed.value,
                            api_url |-> ApiUrl(parsed.value, branch)]
                /\ ret' = [fn |-> "requesting"]
                /\ Send(headers)
    /\ UNCHANGED <<config, world, args, pc, semaphore, session, taskvars, now, outvars>>

\* the lister called on any input, without extension filter
ListRepository == \E repo_url \in RepoUrls : FetchRepositoryFiles(repo_url, NoFilter, MAIN)

\* the lister called on a well-formed short form with any extension filter
ListFiltered ==
    \E file_extensions \in Filters :
        FetchRepositoryFiles(<<"o", "/", "o">>, file_extensions, MAIN)

\* requests.get is over: the response, or the exception, gives the return value
TreeResponse ==
    /\ ret = [fn |-> "requesting"]
    /\ \E resp \in Responses :
          /\ replies' = <<resp>>
          /\ IF RequestAgain(resp)
             THEN /\ Send(headers)
                  /\ UNCHANGED ret
             ELSE /\ ret' = ListerResult(resp, call.file_extensions, call.repo_name,
                                         call.branch)
                  /\ UNCHANGED traffic
    /\ UNCHANGED <<config, world, repo_name, file_paths, script, call, pc, semaphore, session,
                   taskvars, now, outvars>>

\* store_ingested_repo(name, files): the upsert, or False when the store raises
StoreIngestedRepo(name, files) ==
    /\ call' = [fn |-> "store_ingested_repo", repo_name |-> name, ingested_files |-> files]
    /\ \/ \E stamp \in Stamps :
             /\ repos' = ReplaceOne(repos, name, RepoDoc(name, files, stamp))
             /\ ret' = [fn |-> "returned", value |-> TRUE]
       \/ /\ repos' = repos
          /\ ret' = [fn |-> "returned", value |-> FALSE]
    /\ UNCHANGED <<config, vectors, page, args, pc, semaphore, session, taskvars, traffic, now,
                   outvars>>

\* delete_repository_data(name): delete_many on the vector collection, then
\* delete_one on the repositories collection; an exception of either gives
\* the failure result
DeleteRepositoryData(name) ==
    /\ call' = [fn |-> "delete_repository_data", repo_name |-> name]
    /\ LET vector_delete_result == DeleteMany(vectors, name)
           repo_delete_result == DeleteOne(repos, name)
           vector_docs_deleted == vector_delete_result.deleted_count
           repo_record_deleted == repo_delete_result.deleted_count > 0
       IN  \/ /\ vectors' = vector_delete_result.left
              /\ repos' = repo_delete_result.left
              /\ ret' = IF vector_docs_deleted > 0 \/ repo_record_deleted
                        THEN DeleteResult(TRUE, "Successfully deleted", vector_docs_deleted,
                                          repo_record_deleted)
                        ELSE DeleteResult(FALSE, "not found or already deleted",
                                          vector_docs_deleted, repo_record_deleted)
           \/ /\ UNCHANGED <<vectors, repos>>
              /\ ret' = DeleteResult(FALSE, "Error deleting repository", 0, FALSE)
           \/ /\ vectors' = vector_delete_result.left
              /\ UNCHANGED repos
              /\ ret' = DeleteResult(FALSE, "Error deleting repository", 0, FALSE)
    /\ UNCHANGED <<config, page, args, pc, semaphore, session, taskvars, traffic, now, outvars>>

\* ingest_documents_async(docs, name) with the outcome `outcome`: the
\* documents as the loop leaves them, the vector collection, the
\* repositories collection, the call of store_ingested_repo and what is
\* returned or raised.  An indexing that raises has written the first
\* `written` documents.
Ingested(docs, name, outcome, written, stamp) ==
    LET tagged == [j \in 1..Len(docs) |-> EnsureRepo(docs[j], name)]
        ingested_files == IngestedFiles(tagged, Len(docs))
    IN  IF outcome = "create raises"
        THEN [fn |-> "raised", documents |-> docs, indexed |-> None, stored |-> None,
              vectors |-> vectors, repos |-> repos]
        ELSE IF outcome = "index raises"
        THEN [fn |-> "raised", documents |-> tagged, indexed |-> Some(tagged), stored |-> None,
              vectors |-> vectors \o SubSeq(tagged, 1, written), repos |-> repos]
        ELSE IF Truthy(name) /\ ingested_files # <<>>
        THEN [fn |-> "returned", documents |-> tagged, indexed |-> Some(tagged),
              stored |-> Some([repo_name |-> name.value, ingested_files |-> ingested_files]),
              vectors |-> vectors \o tagged,
              repos |-> IF outcome = "stored"
                        THEN ReplaceOne(repos, name.value,
                                        RepoDoc(name.value, ingested_files, stamp))
                        ELSE repos]
        ELSE [fn |-> "returned", documents |-> tagged, indexed |-> Some(tagged),
              stored |-> None, vectors |-> vectors \o tagged, repos |-> repos]

\* the call ingest_documents_async(docs, name) and what it leaves behind
IngestCall(docs, name) ==
    /\ call' = [fn |-> "ingest_documents_async", documents |-> docs, repo_name |-> name]
    /\ \E outcome \in IngestOutcomes, written \in 0..Len(docs), stamp \in Stamps :
          LET result == Ingested(docs, name, outcome, written, stamp)
          IN  /\ ret' = [fn |-> result.fn, documents |-> result.documents,
                         indexed |-> result.indexed, stored |-> result.stored]
              /\ vectors' = result.vectors
              /\ repos' = result.repos

\* a direct call of ingest_documents_async
IngestDocuments(docs, name) ==
    /\ call = NoCall
    /\ IngestCall(docs, name)
    /\ UNCHANGED <<config, page, args, pc, semaphore, session, taskvars, traffic, now, outvars>>

\* run_ingestion up to its loop: nothing ticked notifies and returns; else
\* the button is disabled, the progress reset and repo_name derived
RunIngestion(u, sel) ==
    /\ opc = "idle"
    /\ url' = u
    /\ selected' = sel
    /\ IF sel = <<>>
       THEN /\ notified' = "No files selected"
            /\ opc' = "done"
            /\ UNCHANGED <<step1_btn, progress_bar, run_repo_name>>
       ELSE /\ step1_btn' = "disabled"
            /\ progress_bar' = Fraction(0, 1)
            /\ run_repo_name' = RunRepoName(u)
            /\ opc' = "loop"
            /\ UNCHANGED notified
    /\ loaded_docs' = <<>>
    /\ failed_docs' = <<>>
    /\ loop_i' = 0
    /\ UNCHANGED <<fetch_calls, fetch_returns>>
    /\ UNCHANGED <<config, store, args, direct, pc, semaphore, session, taskvars, traffic, now,
                   outvars>>

\* `for i in range(0, total_files, batch_size)` has a next i: the batch is cut
\* and load_github_files is started in the executor
LoadBatch ==
    /\ opc = "loop"
    /\ loop_i < Len(selected)
    /\ opc' = "loading"
    /\ fetch_calls' = Append(fetch_calls, Batch(selected, loop_i))
    /\ UNCHANGED <<url, selected, run_repo_name, loop_i, loaded_docs, failed_docs,
                   progress_bar, step1_btn, notified, fetch_returns>>
    /\ UNCHANGED <<config, store, args, direct, pc, semaphore, session, taskvars, traffic, now,
                   outvars>>

\* load_github_files has ended: its exception leaves run_ingestion; else the
\* lists are extended, the Documents tagged and the progress set
BatchLoaded ==
    /\ opc = "loading"
    /\ fetch_returns' = fetch_returns + 1
    /\ LET batch == Batch(selected, loop_i)
       IN  \E outcomes \in BatchOutcomes(Len(batch)) :
              LET loaded == LoadGithubFiles(run_repo_name, batch, outcomes)
              IN  IF loaded.fn = "raised"
                  THEN /\ opc' = "raised"
                       /\ UNCHANGED <<loaded_docs, failed_docs, progress_bar, loop_i>>
                  ELSE /\ opc' = "loop"
                       /\ loaded_docs' = loaded_docs \o TagBatch(loaded.documents, run_repo_name)
                       /\ failed_docs' = failed_docs \o loaded.failed_files
                       /\ progress_bar' = Progress(loop_i + Len(batch), Len(selected))
                       /\ loop_i' = loop_i + BatchSize
    /\ UNCHANGED <<url, selected, run_repo_name, step1_btn, notified, fetch_calls>>
    /\ UNCHANGED <<config, store, args, direct, pc, semaphore, session, taskvars, traffic, now,
                   outvars>>

\* the loop is over: step 2, the vector ingestion of the loaded Documents or
\* the notification that there are none, and the button is enabled again
VectorIngestion ==
    /\ opc = "loop"
    /\ loop_i >= Len(selected)
    /\ opc' = "done"
    /\ step1_btn' = "enabled"
    /\ IF ShouldIngest(loaded_docs, failed_docs)
       THEN /\ IngestCall(loaded_docs, Some(run_repo_name))
            /\ IF ret'.fn = "returned"
               THEN /\ progress_bar' = Fraction(1, 1)
                    /\ notified' = "Ingestion Complete!"
               ELSE /\ notified' = "Ingestion Failed"
                    /\ UNCHANGED progress_bar
       ELSE /\ notified' = "No documents loaded to ingest."
            /\ UNCHANGED <<progress_bar, direct, store>>
    /\ UNCHANGED <<url, selected, run_repo_name, loop_i, loaded_docs, failed_docs, fetch_calls,
                   fetch_returns>>
    /\ UNCHANGED <<config, args, pc, semaphore, session, taskvars, traffic, now, outvars>>

\* (mutation: the sleep is not awaited)
SleepOver_nowait(i) == TRUE

\* `await asyncio.sleep(d)` resumes once d time units have passed
SleepOver(i) == remaining[i] <= 0

\* (mutation: returns at the first task that ends)
GatherDone_first == \E i \in Tasks : tpc[i] = "done"

\* `await asyncio.gather(*tasks, return_exceptions=True)` resumes once every
\* task has ended
GatherDone == \A i \in Tasks : tpc[i] = "done"

\* asyncio.sleep is over: next iteration of the for loop
SleepEnds(i) ==
    /\ pc = "gathering"
    /\ tpc[i] = "sleeping"
    /\ SleepOver(i)
    /\ IF InRange(attempt[i] + 1)
       THEN /\ tpc' = [tpc EXCEPT ![i] = "fetching"]
            /\ attempt' = [attempt EXCEPT ![i] = @ + 1]
            /\ calls' = [calls EXCEPT ![i] = @ + 1]
            /\ Send(SessionHeaders)
            /\ UNCHANGED <<results, finished, semaphore>>
       ELSE /\ tpc' = [tpc EXCEPT ![i] = "done"]
            /\ results' = [results EXCEPT ![i] = ReturnedNone]
            /\ finished' = Append(finished, i)
            /\ semaphore' = Release(semaphore)
            /\ UNCHANGED <<attempt, calls, traffic>>
    /\ UNCHANGED <<config, world, direct, args, pc, session, remaining, delays, now, outvars>>

\* a step of the event loop is ready to run without waiting
Ready ==
    \E i \in Tasks :
        \/ tpc[i] = "new"
        \/ tpc[i] = "waiting" /\ ~Locked
        \/ tpc[i] = "sleeping" /\ SleepOver(i)

\* one time unit passes: every running asyncio.sleep is one unit nearer its end
Tick ==
    /\ pc = "gathering"
    /\ ~Ready
    /\ \E i \in Tasks : tpc[i] = "sleeping"
    /\ remaining' = [i \in Tasks |->
                        IF tpc[i] = "sleeping" THEN remaining[i] - 1 ELSE remaining[i]]
    /\ UNCHANGED <<config, world, direct, args, pc, semaphore, session, tpc, attempt, calls,
                   delays, results, finished, traffic, now, outvars>>

\* one time unit passes, and the clock `now` observes it (up to MaxClock)
TimedTick ==
    /\ pc = "gathering"
    /\ ~Ready
    /\ \/ \E i \in Tasks : tpc[i] = "sleeping"
       \/ now < MaxClock /\ \E i \in Tasks : tpc[i] # "done"
    /\ now' = IF now < MaxClock THEN now + 1 ELSE now
    /\ remaining' = [i \in Tasks |->
                        IF tpc[i] = "sleeping" THEN remaining[i] - 1 ELSE remaining[i]]
    /\ UNCHANGED <<config, world, direct, args, pc, semaphore, session, tpc, attempt, calls,
                   delays, results, finished, traffic, outvars>>

\* gather has every result: the session closes and the results are partitioned
Gathered ==
    /\ pc = "gathering"
    /\ GatherDone
    /\ session' = "closed"
    /\ documents' = DocumentsUpTo(Len(file_paths))
    /\ failed_files' = FailedUpTo(Len(file_paths))
    /\ pc' = "returned"
    /\ UNCHANGED <<config, world, direct, args, semaphore, taskvars, traffic, now, error>>

Next ==
    \/ LoadFiles
    \/ \E i \in Tasks : TaskStart(i)
    \/ \E i \in Tasks : Acquire(i)
    \/ \E i \in Tasks : FetchReturns(i)
    \/ \E i \in Tasks : FetchRaises(i)
    \/ \E i \in Tasks : SleepEnds(i)
    \/ Tick
    \/ Gathered

Spec == Init /\ [][Next]_vars

\* Any loader called for a well-formed repository and distinct paths, with
\* any remote behaviour: the tasks of one call.
InitTasks == Constructed(0..MaxK, (-1)..MaxRetries, {None})

LoadPaths ==
    /\ pc = "idle"
    /\ \E n \in 0..MaxFiles :
          \E sc \in Scripts(n) :
              LoadFilesCall(<<"o", "/", "o">>, FirstPaths(n), sc, [i \in 1..n |-> FailThenFile])

NextTasks ==
    \/ LoadPaths
    \/ \E i \in Tasks : TaskStart(i)
    \/ \E i \in Tasks : Acquire(i)
    \/ \E i \in Tasks : FetchReturns(i)
    \/ \E i \in Tasks : FetchRaises(i)
    \/ \E i \in Tasks : SleepEnds(i)
    \/ Tick
    \/ Gathered

SpecTasks == InitTasks /\ [][NextTasks]_vars

\* A loader with at least one slot and retries >= 0, called for a well-formed
\* repository; some step is taken whenever one is possible (every attempt
\* and every delay ends, the event loop runs what is ready).
InitLive == Constructed(1..MaxK, 0..MaxRetries, {None})

\* the remote side for n files: a file is fetched at once, after one failed
\* attempt, or never
LiveScripts(n) == [1..n -> {0, 1, retries + 1}]

LoadValidRepo ==
    /\ pc = "idle"
    /\ \E n \in 0..MaxFiles :
          \E sc \in LiveScripts(n) :
              LoadFilesCall(<<"o", "/", "o">>, FirstPaths(n), sc, [i \in 1..n |-> FailThenFile])

NextLive ==
    \/ LoadValidRepo
    \/ \E i \in Tasks : TaskStart(i)
    \/ \E i \in Tasks : Acquire(i)
    \/ \E i \in Tasks : FetchReturns(i)
    \/ \E i \in Tasks : FetchRaises(i)
    \/ \E i \in Tasks : SleepEnds(i)
    \/ Tick
    \/ Gathered

SpecLive == InitLive /\ [][NextLive]_vars /\ WF_vars(NextLive)

\* The default loader (retries = 3) fetching two files with at least two
\* slots, with the clock observed.
InitTimed == Constructed(2..MaxK, {DefaultRetries}, {None})

NextTimed ==
    \/ LoadTwoFiles
    \/ \E i \in Tasks : TaskStart(i)
    \/ \E i \in Tasks : FetchReturns(i)
    \/ \E i \in Tasks : FetchRaises(i)
    \/ \E i \in Tasks : SleepEnds(i)
    \/ TimedTick
    \/ Gathered

SpecTimed == InitTimed /\ [][NextTimed]_vars

\* One or two files, each with one fixed reply of any kind.
InitKinds == Constructed(1..MaxK, (-1)..MaxRetries, {None})

NextKinds ==
    \/ LoadKinds
    \/ \E i \in Tasks : TaskStart(i)
    \/ \E i \in Tasks : Acquire(i)
    \/ \E i \in Tasks : FetchReturns(i)
    \/ \E i \in Tasks : FetchRaises(i)
    \/ \E i \in Tasks : SleepEnds(i)
    \/ Tick
    \/ Gathered

SpecKinds == InitKinds /\ [][NextKinds]_vars

\* The assembler alone, called once on any input.
InitAssemble == Constructed({MaxK}, {DefaultRetries}, {None})

NextAssemble == CreateDocumentCall

SpecAssemble == InitAssemble /\ [][NextAssemble]_vars

\* The lister alone, called once.
InitLister == Constructed({MaxK}, {DefaultRetries}, {None})

NextLister ==
    \/ ListRepository
    \/ ListFiltered
    \/ TreeResponse

SpecLister == InitLister /\ [][NextLister]_vars

\* A loader constructed with any token, used for one listing or one load.
InitAuth == Constructed({MaxK}, {MaxRetries}, Tokens)

ListWithToken == pc = "idle" /\ ListFiltered

LoadWithToken == call = NoCall /\ LoadTwoFiles

NextAuth ==
    \/ ListWithToken
    \/ TreeResponse
    \/ LoadWithToken
    \/ \E i \in Tasks : TaskStart(i)
    \/ \E i \in Tasks : FetchReturns(i)
    \/ \E i \in Tasks : FetchRaises(i)
    \/ \E i \in Tasks : SleepEnds(i)
    \/ Tick
    \/ Gathered

SpecAuth == InitAuth /\ [][NextAuth]_vars

\* The database, holding any vector documents of earlier runs, under any
\* sequence of upserts and deletions.
InitStore ==
    /\ Loader({MaxK}, {DefaultRetries}, {None})
    /\ repos = {}
    /\ vectors \in SeqsUpTo(VectorDocs, MaxVectors)

NextStore ==
    \/ \E name \in RepoNames, files \in StoreFiles : StoreIngestedRepo(name, files)
    \/ \E name \in RepoNames : DeleteRepositoryData(name)

SpecStore == InitStore /\ [][NextStore]_vars

\* One direct call of ingest_documents_async, on an empty database or one
\* that holds a record of an earlier run.
InitIngest ==
    /\ Loader({MaxK}, {DefaultRetries}, {None})
    /\ repos \in {{}, {RepoDoc(<<"o", "/", "o">>, <<<<"b">>>>, "2026-01-01 00:00:00")}}
    /\ vectors = <<>>

NextIngest ==
    \E docs \in IngestDocLists, name \in {None, Some(<<>>)} \cup {Some(n) : n \in RepoNames} :
        IngestDocuments(docs, name)

SpecIngest == InitIngest /\ [][NextIngest]_vars

\* One run of run_ingestion on an empty database, for any repository input
\* and any number of ticked files.
InitRun == Constructed({MaxK}, {DefaultRetries}, {None})

StartRun == \E u \in RunUrls, sel \in Selections : RunIngestion(u, sel)

NextRun ==
    \/ StartRun
    \/ LoadBatch
    \/ BatchLoaded
    \/ VectorIngestion

SpecRun == InitRun /\ [][NextRun]_vars

\* The same run when the event loop takes a step whenever one is possible.
SpecRunLive == InitRun /\ [][NextRun]_vars /\ WF_vars(NextRun)

TypeOK ==
    /\ pc \in {"idle", "gathering", "returned", "raised"}
    /\ semaphore \in Int
    /\ now \in 0..MaxClock

\* ================================================================ claims

\* --------------------------------------------------------------- helpers

InFlight == Cardinality({i \in Tasks : tpc[i] = "fetching"})

Range(q) == {q[k] : k \in 1..Len(q)}

RECURSIVE CountSlashes(_, _)
CountSlashes(s, n) ==
    IF n = 0 THEN 0
    ELSE CountSlashes(s, n - 1) + (IF s[n] = "/" THEN 1 ELSE 0)

\* the spec's wording of a well-formed identifier: exactly one "/" separator
\* with non-empty segments
TwoSegments(s) ==
    /\ Len(s) >= 3
    /\ CountSlashes(s, Len(s)) = 1
    /\ s[1] # "/"
    /\ s[Len(s)] # "/"

Called == pc # "idle"

\* the path a Document of the input path p carries
CleanPath(p) == Strip(p, {"/"})

NoNetworkActivity ==
    /\ requests = 0
    /\ session = "none"
    /\ tpc = <<>>

\* C1: with N paths and a limit K < N, the number of single-file fetch
\* attempts in flight is at most K in every reachable state.
C1_InFlightAtMostK ==
    (pc = "gathering" /\ concurrent_requests < Len(file_paths))
        => InFlight <= concurrent_requests

C1_Witness ==
    /\ pc = "gathering"
    /\ concurrent_requests >= 1
    /\ concurrent_requests < Len(file_paths)
    /\ InFlight = concurrent_requests
    /\ \E i \in Tasks : tpc[i] = "waiting"

\* C2 (as claimed): for every repo_id that is not of the two-segment form and
\* every list of paths, the empty list included, load_files ends with the
\* ValueError and no request was issued and no task scheduled.
C2_InvalidRepoAlwaysRaises ==
    (Called /\ ~TwoSegments(repo_name))
        => (pc = "raised" /\ error = "ValueError" /\ NoNetworkActivity)

\* C3: for a valid repo_id and the empty list of paths load_files returns
\* ([], []) with no session opened, no task created and no request issued.
C3_EmptyPathsReturnEmpty ==
    (Called /\ TwoSegments(repo_name) /\ file_paths = <<>>)
        => /\ pc = "returned"
           /\ documents = <<>>
           /\ failed_files = <<>>
           /\ error = "none"
           /\ NoNetworkActivity

C3_Witness ==
    /\ pc = "returned"
    /\ TwoSegments(repo_name)
    /\ file_paths = <<>>

\* C4: a file whose first `retries` attempts raise and whose next attempt
\* succeeds is attempted exactly retries + 1 times and ends as a Document,
\* in the documents list and not in the failed list.
C4_SucceedsOnLastAttempt ==
    \A i \in Tasks :
        (retries >= 0 /\ script[i] = retries) =>
            /\ calls[i] <= retries + 1
            /\ tpc[i] = "done" =>
                  /\ results[i].kind = "doc"
                  /\ calls[i] = retries + 1
            /\ pc = "returned" =>
                  /\ \E k \in 1..Len(documents) :
                        documents[k].file_path = CleanPath(file_paths[i])
                  /\ (\A j \in Tasks : file_paths[j] = file_paths[i] => script[j] <= retries)
                        => file_paths[i] \notin Range(failed_files)

C4_Witness ==
    /\ pc = "returned"
    /\ retries >= 2
    /\ \E i \in Tasks :
          /\ script[i] = retries
          /\ calls[i] = retries + 1
          /\ Len(delays[i]) = retries
          /\ file_paths[i] \notin Range(failed_files)

\* C5: a file whose every attempt raises is attempted exactly retries + 1
\* times, then is in the failed-paths list, and load_files returns without
\* an exception.
C5_AlwaysFailingFileIsReported ==
    \A i \in Tasks :
        script[i] >= retries + 1 =>
            /\ calls[i] <= retries + 1
            /\ tpc[i] = "done" =>
                  /\ results[i].kind \in {"exc", "none"}
                  /\ calls[i] = retries + 1
            /\ pc # "raised"
            /\ error = "none"
            /\ pc = "returned" =>
                  /\ file_paths[i] \in Range(failed_files)
                  /\ \A k \in 1..Len(documents) :
                        documents[k].file_path = CleanPath(file_paths[i]) =>
                            \E j \in Tasks : /\ j # i
                                             /\ CleanPath(file_paths[j]) = CleanPath(file_paths[i])
                                             /\ results[j].kind = "doc"

C5_Witness ==
    /\ pc = "returned"
    /\ retries >= 2
    /\ error = "none"
    /\ \E i \in Tasks :
          /\ script[i] = retries + 1
          /\ calls[i] = retries + 1
          /\ results[i].kind = "exc"
          /\ file_paths[i] \in Range(failed_files)

\* C6: the only exception that leaves load_files is the ValueError for a
\* malformed repo_id; for a well-formed repo_id every per-file outcome is
\* inside the returned (documents, failed_paths) pair.
C6_OnlyConfigurationErrorPropagates ==
    /\ error \in {"none", "ValueError"}
    /\ (pc = "raised" \/ error # "none") =>
          (pc = "raised" /\ error = "ValueError" /\ ~TwoSegments(repo_name))
    /\ (Called /\ TwoSegments(repo_name)) => (pc # "raised" /\ error = "none")
    /\ pc = "returned" =>
          /\ Len(documents) + Len(failed_files) = Len(file_paths)
          /\ \A i \in Tasks :
                \/ /\ results[i].kind = "doc"
                   /\ results[i].doc \in Range(documents)
                \/ /\ results[i].kind \in {"exc", "none"}
                   /\ file_paths[i] \in Range(failed_files)

C6_Witness ==
    /\ pc = "returned"
    /\ TwoSegments(repo_name)
    /\ error = "none"
    /\ \E i, j \in Tasks : results[i].kind = "doc" /\ results[j].kind = "exc"

\* the terminal state the attempts of position i lead to when nothing cuts
\* them short
RanToEnd(i) ==
    /\ tpc[i] = "done"
    /\ \/ /\ results[i].kind = "doc"
          /\ script[i] <= retries
          /\ calls[i] = script[i] + 1
       \/ /\ results[i].kind = "exc"
          /\ script[i] > retries
          /\ calls[i] = retries + 1
       \/ /\ results[i].kind = "none"
          /\ retries < 0
          /\ calls[i] = 0

\* C7: load_files returns only after every scheduled task has reached a
\* terminal state, and no task's attempts are cancelled or cut short by the
\* failure or the slowness of another.
C7_JoinAllBarrier ==
    /\ pc = "returned" => \A i \in Tasks : RanToEnd(i)
    /\ \A i \in Tasks : tpc[i] = "done" => RanToEnd(i)

C7_Witness ==
    /\ pc = "returned"
    /\ \E i, j \in Tasks :
          /\ results[i].kind = "exc"
          /\ calls[i] >= 2
          /\ results[j].kind = "doc"
          /\ calls[j] >= 2

\* position j can start its first attempt now
StartsFirstAttempt(j) ==
    /\ TaskStart(j) \/ Acquire(j)
    /\ tpc'[j] = "fetching"

\* C8 (as claimed): for every limit K >= 1, while one file sleeps in backoff
\* a file that has not started yet can start its first attempt.
C8_BackoffDelaysNoOtherFile ==
    \A i, j \in Tasks :
        ( /\ concurrent_requests >= 1
          /\ retries >= 0
          /\ tpc[i] = "sleeping"
          /\ \/ tpc[j] = "waiting"
             \/ tpc[j] = "new" /\ \A h \in 1..(j - 1) : tpc[h] # "new" )
        => ENABLED StartsFirstAttempt(j)

\* A = position 1 fails 3 times then succeeds, B = position 2 succeeds at once
ScenarioAB ==
    /\ pc \in {"gathering", "returned"}
    /\ concurrent_requests >= 2
    /\ Len(file_paths) = 2
    /\ script = <<3, 0>>

\* C9 (as claimed): in every interleaving B reaches its success state before
\* A's final attempt completes.
C9_BFirstInEveryInterleaving ==
    (ScenarioAB /\ tpc[1] = "done") => tpc[2] = "done"

\* C9 (amended): B's first attempt starts with the call and never waits for a
\* slot or for A; A's final attempt cannot complete before 7 time units
\* (1 + 2 + 4) have passed, so A ends before B only when B's first request
\* has been outstanding for at least 7 time units.
C9_BFirstUnlessSlow ==
    ScenarioAB =>
        /\ tpc[2] # "waiting"
        /\ tpc[2] = "new" => (now = 0 /\ tpc[1] \in {"new", "fetching"} /\ calls[1] <= 1)
        /\ tpc[2] = "fetching" => attempt[2] = 0
        /\ (tpc[1] = "done" /\ tpc[2] # "done") =>
              /\ now >= 7
              /\ tpc[2] = "fetching"
              /\ calls[2] = 1

C9_Witness ==
    /\ ScenarioAB
    /\ tpc[2] = "done"
    /\ results[2].kind = "doc"
    /\ tpc[1] = "fetching"
    /\ attempt[1] = 3
    /\ now = 7

\* C10: the delay that follows the n-th failed attempt of a file is
\* 2^(n-1) time units (1, 2, 4, ...), each delay at least double the
\* previous one, and the next attempt does not start before it has passed.
C10_ExponentialBackoff ==
    \A i \in Tasks :
        /\ \A n \in 1..Len(delays[i]) : delays[i][n] = 2 ^ (n - 1)
        /\ \A n \in 2..Len(delays[i]) : delays[i][n] >= 2 * delays[i][n - 1]
        /\ tpc[i] = "sleeping" => Len(delays[i]) = attempt[i] + 1
        /\ tpc[i] = "fetching" =>
              /\ Len(delays[i]) = attempt[i]
              /\ (now < MaxClock => now >= 2 ^ attempt[i] - 1)

C10_Witness ==
    \E i \in Tasks : delays[i] = <<1, 2, 4>> /\ tpc[i] = "fetching"

\* number of positions of the sequence q that hold x
RECURSIVE Count(_, _)
Count(q, x) ==
    IF q = <<>> THEN 0
    ELSE (IF Head(q) = x THEN 1 ELSE 0) + Count(Tail(q), x)

DocumentPaths == [k \in 1..Len(documents) |-> documents[k].file_path]

\* C11: the result partitions the input: every position of the path list
\* gives exactly one entry, a Document or a failed path, so that
\* len(documents) + len(failed_paths) = len(paths).
C11_ResultPartitionsInput ==
    pc = "returned" =>
        /\ Len(documents) + Len(failed_files) = Len(file_paths)
        /\ Len(documents) = Cardinality({i \in Tasks : results[i].kind = "doc"})
        /\ Len(failed_files) = Cardinality({i \in Tasks : results[i].kind # "doc"})
        /\ \A i \in Tasks : results[i].kind \in {"doc", "exc", "none"}
        /\ \A p \in Range(file_paths) :
              /\ Count(DocumentPaths, CleanPath(p))
                    = Cardinality({i \in Tasks : /\ CleanPath(file_paths[i]) = CleanPath(p)
                                                 /\ results[i].kind = "doc"})
              /\ Count(failed_files, p)
                    = Cardinality({i \in Tasks : file_paths[i] = p /\ results[i].kind # "doc"})

C11_Witness ==
    /\ pc = "returned"
    /\ Len(file_paths) = 2
    /\ Len(documents) = 1
    /\ Len(failed_files) = 1

\* C12: paths are not deduplicated: a path that occurs m times in the input
\* gets m tasks, each with its own attempt sequence, and gives m entries of
\* the result.
C12_NoDeduplication ==
    /\ pc = "gathering" => Len(tpc) = Len(file_paths)
    /\ \A i \in Tasks :
          tpc[i] = "done" =>
              calls[i] = (IF retries < 0 THEN 0
                          ELSE IF script[i] <= retries THEN script[i] + 1
                          ELSE retries + 1)
    /\ pc = "returned" =>
          \A p \in Range(file_paths) :
              /\ Cardinality({i \in Tasks : file_paths[i] = p /\ results[i].kind = "doc"})
                    + Count(failed_files, p) = Count(file_paths, p)
              /\ Count(DocumentPaths, CleanPath(p))
                    >= Cardinality({i \in Tasks : file_paths[i] = p /\ results[i].kind = "doc"})

C12_Witness ==
    /\ pc = "returned"
    /\ Len(file_paths) = 2
    /\ file_paths[1] = file_paths[2]
    /\ calls[1] # calls[2]
    /\ results[1].kind = "exc"
    /\ results[2].kind = "doc"
    /\ Count(DocumentPaths, CleanPath(file_paths[1])) = 1
    /\ Count(failed_files, file_paths[1]) = 1

\* ------------------------------------------- replies of every kind (SpecKinds)

\* the reply every attempt of position i gets
TheReply(i) == replies[i].first

Success(st) == 200 <= st /\ st < 300

Base64Bodies == {"base64_utf8", "base64_bytes", "base64_broken"}

\* position i has made an attempt and that attempt has ended
AttemptEnded(i) == calls[i] > 0 /\ tpc[i] \in {"sleeping", "done"}

\* the attempt of position i that ended last failed (the task sleeps before
\* the next attempt, or ended with the exception)
AttemptFailed(i) == tpc[i] = "sleeping" \/ (tpc[i] = "done" /\ results[i].kind = "exc")

\* position i ended with the failure e, of an attempt that raised it
FailedWith(i, e) ==
    /\ AttemptFailed(i)
    /\ tpc[i] = "done" => results[i].exc = e

\* position i ended its only attempt with a Document
GaveDocument(i) == tpc[i] = "done" /\ results[i].kind = "doc" /\ calls[i] = 1

\* C13: a 2xx reply with base64-declared content never makes the file fail
\* because of decoding: whether the base64 step or the UTF-8 step fails, the
\* attempt gives a Document through the fallback decoding.
C13_DecodingNeverFails ==
    \A i \in Tasks :
        /\ AttemptEnded(i)
        /\ TheReply(i).status = 200
        /\ TheReply(i).body \in Base64Bodies
        => GaveDocument(i)

\* C14 as stated: 404 is a not-found failure, 403 a permission failure, any
\* other non-2xx status a generic failure, and every 2xx status goes on to
\* the body: list -> directory failure, base64 -> Document, other encoding
\* -> unsupported-encoding failure.
C14_Every2xxReachesBody ==
    \A i \in Tasks :
        AttemptEnded(i) =>
            LET st == TheReply(i).status
                b == TheReply(i).body
            IN  IF st = 404 THEN FailedWith(i, "FileNotFoundError")
                ELSE IF st = 403 THEN FailedWith(i, "PermissionError")
                ELSE IF ~Success(st) THEN FailedWith(i, "Exception")
                ELSE IF b = "list" THEN FailedWith(i, "ValueError: directory")
                ELSE IF b \in Base64Bodies THEN GaveDocument(i)
                ELSE FailedWith(i, "ValueError: encoding")

\* C14 (amended): 404 is a not-found failure, 403 a permission failure, any
\* other status than 200 (the other 2xx included) a generic failure, and 200
\* alone goes on to the body: list -> directory failure, base64 that decodes
\* (as UTF-8 or through the fallback) -> Document, base64 content that is
\* not decodable base64 -> failure of the attempt, other encoding ->
\* unsupported-encoding failure.
C14_Only200ReachesBody ==
    \A i \in Tasks :
        AttemptEnded(i) =>
            LET st == TheReply(i).status
                b == TheReply(i).body
            IN  IF st = 404 THEN FailedWith(i, "FileNotFoundError")
                ELSE IF st = 403 THEN FailedWith(i, "PermissionError")
                ELSE IF st # 200 THEN FailedWith(i, "Exception")
                ELSE IF b = "list" THEN FailedWith(i, "ValueError: directory")
                ELSE IF b \in {"base64_utf8", "base64_bytes"}
                THEN /\ GaveDocument(i)
                     /\ results[i].doc.text = (IF b = "base64_utf8" THEN TEXT ELSE LATIN)
                ELSE IF b = "base64_broken" THEN FailedWith(i, "UnboundLocalError")
                ELSE FailedWith(i, "ValueError: encoding")

\* a 201 reply has ended as a generic failure next to a 200 reply whose
\* content went through the fallback decoding
C14_Witness ==
    /\ pc = "returned"
    /\ Len(file_paths) = 2
    /\ TheReply(1) = Reply(201, "base64_utf8")
    /\ results[1].exc = "Exception"
    /\ TheReply(2) = Reply(200, "base64_bytes")
    /\ results[2].kind = "doc"
    /\ failed_files = <<file_paths[1]>>

FullBackoff(r) == [n \in 1..r |-> 2 ^ (n - 1)]

PermanentReplies == {Reply(404, "base64_utf8"), Reply(200, "list"), Reply(200, "other")}

\* C16: permanent errors (404, directory, unsupported encoding) go through
\* the same retry loop as the transient ones: such a path is attempted
\* retries + 1 times with the full backoff sequence before it is recorded
\* as failed.
C16_PermanentErrorsAreRetried ==
    \A i \in Tasks :
        TheReply(i) \in PermanentReplies /\ retries >= 0 =>
            /\ tpc[i] = "done" =>
                  /\ calls[i] = retries + 1
                  /\ delays[i] = FullBackoff(retries)
                  /\ results[i].kind = "exc"
            /\ pc = "returned" => \E k \in 1..Len(failed_files) : failed_files[k] = file_paths[i]
            /\ \A k \in 1..Len(failed_files) :
                  failed_files[k] = file_paths[i] => calls[i] = retries + 1

C16_Witness ==
    /\ pc = "returned"
    /\ retries = MaxRetries
    /\ Len(file_paths) = 1
    /\ TheReply(1) = Reply(404, "base64_utf8")
    /\ calls[1] = MaxRetries + 1
    /\ delays[1] = FullBackoff(MaxRetries)
    /\ Len(delays[1]) >= 2
    /\ failed_files = file_paths

\* ------------------------------------------------- the assembler (SpecAssemble)

Assembled == call.fn = "_create_document"

\* position of the last "/" of p, 0 when it has none
LastSlash(p) ==
    IF \A k \in 1..Len(p) : p[k] # "/" THEN 0
    ELSE CHOOSE k \in 1..Len(p) : p[k] = "/" /\ \A h \in (k + 1)..Len(p) : p[h] # "/"

\* the last segment of p and p without its last segment, as texts
LastSegment(p) == Slice(p, LastSlash(p) + 1, Len(p))
WithoutLastSegment(p) == Slice(p, 1, LastSlash(p) - 1)

\* every "/"-separated segment of p is non-empty and none is "."
NormalPath(p) == \A k \in 1..Len(Split(p, "/")) : Split(p, "/")[k] \notin {<<>>, <<".">>}

\* spec example 1 comes out as stated
ExampleAssembled ==
    /\ call.repo_name = <<"o", "/", "r">>
    /\ call.branch = MAIN
    /\ call.file_path = DOCS_A_MD
    => /\ ret.doc_id = <<"o", "/", "r", ":", "m", "a", "i", "n", ":", "d", "o", "c", "s", "/", "a", ".", "m", "d">>
       /\ ret.file_name = <<"a", ".", "m", "d">>
       /\ ret.directory = <<"d", "o", "c", "s">>
       /\ ret.url = <<"h", "t", "t", "p", "s", ":", "/", "/", "g", "i", "t", "h", "u", "b", ".", "c", "o", "m", "/", "o", "/", "r", "/", "b", "l", "o", "b", "/", "m", "a", "i", "n", "/", "d", "o", "c", "s", "/", "a", ".", "m", "d">>

\* C17 as stated: for every (repo_id, branch, path) the identifier is
\* repo_id ":" branch ":" path, the url is "https://github.com/" repo_id
\* "/blob/" branch "/" path, file_name is the last path segment and
\* directory is the path without its last segment.
C17_AssembledFromEveryPath ==
    Assembled =>
        /\ ret.doc_id = call.repo_name \o <<":">> \o call.branch \o <<":">> \o call.file_path
        /\ ret.url = GITHUB \o call.repo_name \o BLOB \o call.branch \o <<"/">> \o call.file_path
        /\ ret.file_name = LastSegment(call.file_path)
        /\ ret.directory = WithoutLastSegment(call.file_path)
        /\ ExampleAssembled

\* C17 (amended): identifier and url are built so for every (repo_id,
\* branch, path); file_name is the last segment and directory the path
\* without its last segment for every path whose segments are all non-empty
\* and none ".".
C17_AssembledFromNormalPath ==
    Assembled =>
        /\ ret.doc_id = call.repo_name \o <<":">> \o call.branch \o <<":">> \o call.file_path
        /\ ret.url = GITHUB \o call.repo_name \o BLOB \o call.branch \o <<"/">> \o call.file_path
        /\ NormalPath(call.file_path) =>
              /\ ret.file_name = LastSegment(call.file_path)
              /\ ret.directory = WithoutLastSegment(call.file_path)
        /\ ExampleAssembled

C17_Witness ==
    /\ Assembled
    /\ call.repo_name = <<"o", "/", "r">>
    /\ call.branch = MAIN
    /\ call.file_path = DOCS_A_MD
    /\ ret.directory = <<"d", "o", "c", "s">>

\* C18: for every path with a single segment (a file at the repository
\* root) the assembled Document has directory "" and never ".".
C18_RootFileHasEmptyDirectory ==
    Assembled /\ LastSlash(call.file_path) = 0 =>
        /\ ret.directory = <<>>
        /\ ret.directory # <<".">>

C18_Witness ==
    /\ Assembled
    /\ call.file_path = <<"d", ".", "M">>
    /\ ret.file_name = <<"d", ".", "M">>
    /\ ret.file_extension = <<".", "m">>
    /\ ret.directory = <<>>

\* ----------------------------------------------------- the lister (SpecLister)

Listed == call.fn = "fetch_repository_files"

\* the path segments of the input: what follows the host of a web URL,
\* without the "/" at its ends, or the short form without the blanks at its ends
InputSegments(u) ==
    IF StartsWith(u, GITHUB) THEN Split(Strip(Slice(u, Len(GITHUB) + 1, Len(u)), {"/"}), "/")
    ELSE IF StartsWith(u, HTTP_GITHUB)
    THEN Split(Strip(Slice(u, Len(HTTP_GITHUB) + 1, Len(u)), {"/"}), "/")
    ELSE Split(Strip(u, {" "}), "/")

WebUrl(u) == StartsWith(u, GITHUB) \/ StartsWith(u, HTTP_GITHUB)

\* the input gives an owner and a repo: a short form of exactly two
\* non-empty segments, or a web URL whose path starts with two non-empty
\* segments
YieldsOwnerAndRepo(u) ==
    LET segs == InputSegments(u)
    IN  /\ IF WebUrl(u) THEN Len(segs) >= 2 ELSE Len(segs) = 2
        /\ segs[1] # <<>>
        /\ segs[2] # <<>>

\* C19: the normalization of the lister fails, with the empty path list,
\* the invalid-format message and no request, whenever the input does not
\* give two non-empty segments owner and repo; when it succeeds the
\* identifier is those two segments joined by "/".
C19_InvalidInputNeverRequested ==
    Listed =>
        IF ~YieldsOwnerAndRepo(call.repo_url)
        THEN /\ ret = Returned(<<>>, InvalidFormat)
             /\ requests = 0
        ELSE /\ requests = 1
             /\ call.repo_name = InputSegments(call.repo_url)[1] \o <<"/">>
                                    \o InputSegments(call.repo_url)[2]
             /\ call.api_url = API_REPOS \o call.repo_name \o GIT_TREES \o call.branch
                                    \o RECURSIVE_1

\* the response of the lister's request
TheResponse == replies[1]

\* the positions of the tree that the claim lets through
Qualifying ==
    {k \in 1..Len(TheResponse.tree) :
        /\ TheResponse.tree[k].type = "blob"
        /\ \/ ~call.file_extensions.given
           \/ \E x \in Range(call.file_extensions.list) :
                 EndsWith(Lower(TheResponse.tree[k].path), Lower(x))}

\* C20: on a 200 tree response the lister returns exactly the entries of
\* type blob, in tree order: all of them without extension filter, otherwise
\* those whose lower-cased path ends with the lower-cased form of a listed
\* extension; no entry of another type is returned.
C20_BlobsInTreeOrder ==
    /\ Listed
    /\ ret.fn = "returned"
    /\ requests = 1
    /\ TheResponse.raised = "none"
    /\ TheResponse.status = 200
    => /\ Len(ret.files) = Cardinality(Qualifying)
       /\ \E at \in [1..Len(ret.files) -> Qualifying] :
             /\ \A j \in 1..Len(ret.files) : ret.files[j] = TheResponse.tree[at[j]].path
             /\ \A j \in 1..Len(ret.files), h \in 1..Len(ret.files) : j < h => at[j] < at[h]
       /\ ~call.file_extensions.given =>
             Len(ret.files) = Cardinality({k \in 1..Len(TheResponse.tree) :
                                              TheResponse.tree[k].type = "blob"})

C20_Witness ==
    /\ Listed
    /\ ret.fn = "returned"
    /\ call.file_extensions = Filter(<<<<".", "m">>>>)
    /\ TheResponse.status = 200
    /\ TheResponse.tree = <<[type |-> "tree", path |-> <<"d", ".", "M">>],
                            [type |-> "blob", path |-> <<"d", ".", "M">>]>>
    /\ ret.files = <<<<"d", ".", "M">>>>

\* the six error outcomes of the request of the lister, "unexpected" for
\* any other exception and "none" for a 200
ErrorOutcome(resp) ==
    IF resp.raised = "Timeout" THEN "timeout"
    ELSE IF resp.raised = "RequestException" THEN "network"
    ELSE IF resp.raised # "none" THEN "unexpected"
    ELSE IF resp.status = 200 THEN "none"
    ELSE IF resp.status = 404 THEN "404"
    ELSE IF resp.status = 403 THEN (IF resp.rate_limit THEN "403 rate limit" ELSE "403")
    ELSE "status"

\* the lister has returned after the outcome `resp` of its request
ReturnedAfterRequest ==
    Listed /\ ret.fn = "returned" /\ requests > 0 /\ replies # <<>>

\* C21: the lister never raises: each of the six error outcomes returns the
\* empty path list with a status message, and the messages of two different
\* outcomes differ.
C21_ErrorOutcomesAreDistinctMessages ==
    /\ Listed => ret.fn \in {"requesting", "returned"}
    /\ ReturnedAfterRequest /\ ErrorOutcome(TheResponse) # "none" =>
          /\ ret.files = <<>>
          /\ ret.message # InvalidFormat
          /\ \A other \in Responses :
                ErrorOutcome(other) \notin {"none", ErrorOutcome(TheResponse)} =>
                    ListerResult(other, call.file_extensions, call.repo_name,
                                 call.branch).message # ret.message

C21_Witness ==
    /\ ReturnedAfterRequest
    /\ ErrorOutcome(TheResponse) = "403 rate limit"
    /\ ret.files = <<>>

\* C22: the lister issues at most one request per call: after a failed
\* request (error status, timeout, network error) it returns the error
\* outcome and no second request follows.
C22_AtMostOneRequest ==
    /\ requests <= 1
    /\ Listed /\ replies # <<>> /\ ErrorOutcome(TheResponse) # "none" =>
          /\ requests = 1
          /\ ret.fn = "returned"
          /\ ret.files = <<>>
    /\ Listed /\ ret.fn = "returned" => ~ENABLED TreeResponse

C22_Witness ==
    /\ ReturnedAfterRequest
    /\ ErrorOutcome(TheResponse) = "timeout"
    /\ requests = 1

\* ------------------------------------------------ authentication (SpecAuth)

\* a token is configured: given and not empty
TokenConfigured == github_token # None /\ github_token.value # <<>>

\* the attempts made so far by the tasks of the load
RECURSIVE AttemptsUpTo(_)
AttemptsUpTo(n) == IF n = 0 THEN 0 ELSE AttemptsUpTo(n - 1) + calls[n]

\* C30: with a token configured every request of the loader (the tree
\* listing and every per-file attempt, retries included) carries the
\* authorization header of that token; without a token no request carries
\* an authorization header and the requests are still made.
C30_TokenOnEveryRequest ==
    /\ requests = (IF Listed THEN 1 ELSE AttemptsUpTo(Len(calls)))
    /\ requests > 0 => wire # {}
    /\ \A h \in wire :
          IF TokenConfigured
          THEN /\ "Authorization" \in DOMAIN h
               /\ h.Authorization = <<"t", "o", "k", "e", "n", " ">> \o github_token.value
          ELSE "Authorization" \notin DOMAIN h
    /\ Listed => requests = 1
    /\ pc = "returned" => requests >= Len(file_paths)

C30_Witness ==
    /\ TokenConfigured
    /\ pc = "returned"
    /\ calls[1] >= 2
    /\ calls[2] >= 1
    /\ requests = calls[1] + calls[2]
    /\ \A h \in wire : "Authorization" \in DOMAIN h

\* ------------------------------------------------- the database (SpecStore)

\* the records of the collection coll, of the name `name` and of the others
RecordsOf(coll, name) == {r \in coll : r.id = name}
OtherRecords(coll, name) == {r \in coll : r.id # name}

\* the vector documents tagged with `name`, and the others, in order
VectorsOf(coll, name) == SelectSeq(coll, LAMBDA d : "repo" \in DOMAIN d /\ d.repo = name)
OtherVectors(coll, name) == SelectSeq(coll, LAMBDA d : ~("repo" \in DOMAIN d /\ d.repo = name))

\* store_ingested_repo(name, files) has just returned True
StoredStep ==
    /\ call'.fn = "store_ingested_repo"
    /\ ret'.value = TRUE

\* C28: the metadata store is an upsert by repository name: at most one
\* record per name, every record has file_count = len(ingested_files), and
\* after store_ingested_repo(name, files) returned True the record of
\* `name` holds exactly `files`, the records of other names being unchanged.
C28_UpsertByName ==
    /\ [](\A r \in repos :
            /\ RecordsOf(repos, r.id) = {r}
            /\ r.repo_name = r.id
            /\ r.file_count = Len(r.ingested_files))
    /\ [][StoredStep =>
            /\ \E r \in repos' :
                  /\ RecordsOf(repos', call'.repo_name) = {r}
                  /\ r.ingested_files = call'.ingested_files
            /\ OtherRecords(repos', call'.repo_name) = OtherRecords(repos, call'.repo_name)
            /\ vectors' = vectors]_vars

\* a record of two files has been replaced by one of a single file, next to
\* the record of another repository
C28_Witness ==
    /\ call.fn = "store_ingested_repo"
    /\ ret.value = TRUE
    /\ call.ingested_files = <<<<"a">>>>
    /\ Cardinality(repos) = 2
    /\ \E r \in repos : r.id = call.repo_name /\ r.file_count = 1
    /\ \E r \in repos : r.id # call.repo_name /\ r.file_count = 2

DeleteStep == call'.fn = "delete_repository_data"

\* the store raised during the deletion
DeleteError == ret'.message = "Error deleting repository"

\* C29 as stated: delete_repository_data(name) removes the vector documents
\* tagged with name and the record of name, leaves the rest unchanged,
\* reports success exactly when a vector document or the record was
\* deleted, and on a store error returns success = false without raising.
C29_SuccessIffDeleted ==
    [][DeleteStep =>
        /\ ret'.fn = "returned"
        /\ OtherVectors(vectors', call'.repo_name) = OtherVectors(vectors, call'.repo_name)
        /\ OtherRecords(repos', call'.repo_name) = OtherRecords(repos, call'.repo_name)
        /\ ret'.success <=> (vectors' # vectors \/ repos' # repos)
        /\ DeleteError => ~ret'.success
        /\ ~DeleteError =>
              /\ VectorsOf(vectors', call'.repo_name) = <<>>
              /\ RecordsOf(repos', call'.repo_name) = {}]_vars

\* C29 (amended): without store error the vector documents and the record
\* of name are removed and success is reported exactly when one of them
\* existed; on a store error success = false is returned without raising,
\* also when the vector documents were already deleted; the data of other
\* repos is unchanged in every case.
C29_DeleteByName ==
    [][DeleteStep =>
        /\ ret'.fn = "returned"
        /\ OtherVectors(vectors', call'.repo_name) = OtherVectors(vectors, call'.repo_name)
        /\ OtherRecords(repos', call'.repo_name) = OtherRecords(repos, call'.repo_name)
        /\ DeleteError =>
              /\ ~ret'.success
              /\ repos' = repos
              /\ vectors' \in {vectors, OtherVectors(vectors, call'.repo_name)}
        /\ ~DeleteError =>
              /\ VectorsOf(vectors', call'.repo_name) = <<>>
              /\ RecordsOf(repos', call'.repo_name) = {}
              /\ ret'.success <=> (vectors' # vectors \/ repos' # repos)
              /\ ret'.vector_docs_deleted = Len(vectors) - Len(vectors')
              /\ ret'.repo_record_deleted <=> repos' # repos]_vars

\* a deletion that removed one vector document and the record of a
\* repository and left the document and the record of the other one
C29_Witness ==
    /\ call.fn = "delete_repository_data"
    /\ ret.success
    /\ ret.vector_docs_deleted = 1
    /\ ret.repo_record_deleted
    /\ Len(vectors) = 1
    /\ Cardinality(repos) = 1
    /\ \A r \in repos : r.id # call.repo_name

\* ------------------------------------------- the ingestion (SpecIngest)

IngestStep == call'.fn = "ingest_documents_async"

\* the Documents reached the indexing (the vector store could be created)
Indexed == ret'.indexed.some

\* the path ingest_documents_async tracks for a Document
TrackedPath(d) == IF "file_path" \in DOMAIN d THEN d.file_path ELSE d.doc_id

\* C25: every Document handed to the indexing for a requested repo has a repo
\* tag: a Document that lacked one carries the requested repo identifier, a
\* Document that had one keeps its value, and nothing else of it changes.
C25_EveryDocumentTagged ==
    [][(IngestStep /\ Indexed /\ Truthy(call'.repo_name)) =>
        /\ Len(ret'.indexed.value) = Len(call'.documents)
        /\ \A j \in 1..Len(call'.documents) :
              LET given == call'.documents[j]
                  handed == ret'.indexed.value[j]
              IN  /\ "repo" \in DOMAIN handed
                  /\ handed.repo = IF "repo" \in DOMAIN given THEN given.repo
                                   ELSE call'.repo_name.value
                  /\ DOMAIN handed = DOMAIN given \cup {"repo"}
                  /\ \A k \in DOMAIN given \ {"repo"} : handed[k] = given[k]]_vars

\* an untagged Document and one tagged with another repository went through
\* the ingestion for o/o
C25_Witness ==
    /\ call.fn = "ingest_documents_async"
    /\ call.repo_name = Some(<<"o", "/", "o">>)
    /\ call.documents = <<UntaggedDoc(<<"a">>), Doc(<<"a">>, <<"o", "/", "r">>)>>
    /\ ret.indexed.some
    /\ ret.indexed.value[1].repo = <<"o", "/", "o">>
    /\ ret.indexed.value[2].repo = <<"o", "/", "r">>

\* the distinct tracked paths of the Documents, in the order of their first
\* occurrence
IsIngestedPaths(files, docs) ==
    /\ \A j, k \in 1..Len(files) : files[j] = files[k] => j = k
    /\ {files[j] : j \in 1..Len(files)} = {TrackedPath(docs[j]) : j \in 1..Len(docs)}
    /\ \A j, k \in 1..Len(files) :
          j < k => \E q \in 1..Len(docs) :
                      /\ TrackedPath(docs[q]) = files[j]
                      /\ \A q2 \in 1..q : TrackedPath(docs[q2]) # files[k]

\* the ingestion raised: nothing is handed to store_ingested_repo and the
\* repositories collection is as before
RaisedLeavesRecords ==
    (IngestStep /\ ret'.fn = "raised") => (~ret'.stored.some /\ repos' = repos)

\* the ingestion returned for a repo name and at least one Document
IndexedForRepo ==
    /\ IngestStep
    /\ ret'.fn = "returned"
    /\ Truthy(call'.repo_name)
    /\ call'.documents # <<>>

\* C27 as stated: if indexing raises, store_ingested_repo is not called and the
\* record store is unchanged; if indexing succeeds with a repo name and a
\* non-empty file list, the record holds exactly the ingested file paths.
C27_RecordAlwaysUpserted ==
    /\ [][RaisedLeavesRecords]_vars
    /\ [][IndexedForRepo =>
            \E r \in repos' :
               /\ RecordsOf(repos', call'.repo_name.value) = {r}
               /\ IsIngestedPaths(r.ingested_files, call'.documents)]_vars

\* C27 (amended): if indexing raises, store_ingested_repo is not called and
\* the record store is unchanged; if indexing succeeds with a repo name and a
\* non-empty file list, store_ingested_repo is called with exactly the
\* ingested file paths, and the record holds them unless the store refuses
\* the write, which leaves the record store unchanged.
C27_RecordAfterIndexing ==
    /\ [][RaisedLeavesRecords]_vars
    /\ [][IndexedForRepo =>
            /\ ret'.stored.some
            /\ ret'.stored.value.repo_name = call'.repo_name.value
            /\ IsIngestedPaths(ret'.stored.value.ingested_files, call'.documents)
            /\ \/ repos' = repos
               \/ \E r \in repos' :
                     /\ RecordsOf(repos', call'.repo_name.value) = {r}
                     /\ r.ingested_files = ret'.stored.value.ingested_files
                     /\ OtherRecords(repos', r.id) = OtherRecords(repos, r.id)]_vars

\* an ingestion of two Documents for o/o left the record of o/o with their
\* two paths
C27_Witness ==
    /\ call.fn = "ingest_documents_async"
    /\ call.repo_name = Some(<<"o", "/", "o">>)
    /\ call.documents = <<UntaggedDoc(<<"a">>), BareDoc(<<"b">>)>>
    /\ ret.fn = "returned"
    /\ \E r \in repos : r.id = <<"o", "/", "o">> /\ r.ingested_files = <<<<"a">>, <<"b">>>>

\* ------------------------------------------- the orchestrator (SpecRun)

\* the concatenation of the first n sequences of seqs
RECURSIVE Flatten(_, _)
Flatten(seqs, n) == IF n = 0 THEN <<>> ELSE Flatten(seqs, n - 1) \o seqs[n]

\* the paths handed to the fetcher so far, and those of the calls that ended
Handed == Flatten(fetch_calls, Len(fetch_calls))
Processed == Flatten(fetch_calls, fetch_returns)

\* run_ingestion has left its loop without exception
LoopOver == selected # <<>> /\ (opc = "done" \/ (opc = "loop" /\ loop_i >= Len(selected)))

\* C23: the selected paths are cut into consecutive batches of 10: every batch
\* but the last has exactly 10 paths, the last between 1 and 10, the batches
\* in order make up the selected list, and the fetcher is called once per
\* batch, one batch at a time.
C23_BatchesOfTen ==
    /\ \A k \in 1..Len(fetch_calls) :
          /\ Len(fetch_calls[k]) \in 1..10
          /\ 10 * k < Len(selected) => Len(fetch_calls[k]) = 10
    /\ Len(Handed) <= Len(selected)
    /\ Handed = SubSeq(selected, 1, Len(Handed))
    /\ Len(fetch_calls) - fetch_returns \in {0, 1}
    /\ Len(fetch_calls) - fetch_returns = 1 <=> opc = "loading"
    /\ LoopOver =>
          /\ Handed = selected
          /\ 10 * (Len(fetch_calls) - 1) < Len(selected)
          /\ Len(selected) <= 10 * Len(fetch_calls)

\* 21 paths went out as batches of 10, 10 and 1
C23_Witness ==
    /\ opc = "done"
    /\ Len(selected) = 21
    /\ Len(fetch_calls) = 3
    /\ Len(fetch_calls[1]) = 10
    /\ Len(fetch_calls[2]) = 10
    /\ fetch_calls[3] = <<selected[21]>>

\* the paths of the loaded Documents
LoadedPaths == [j \in 1..Len(loaded_docs) |-> loaded_docs[j].file_path]

\* the value a of progress_bar is n / d
IsFraction(a, n, d) == a.num * d = n * a.den

\* C24: after each batch len(loaded_docs) + len(failed_docs) is the number of
\* files processed so far and the progress is that number / total, scaled by
\* 0.5; the progress never decreases, and after the last batch every
\* selected file is a loaded Document or a failed path.
C24_CountsAndProgress ==
    /\ [](opc \in {"loop", "loading", "done"} /\ selected # <<>> =>
            /\ Len(loaded_docs) + Len(failed_docs) = Len(Processed)
            /\ Range(LoadedPaths) \cup Range(failed_docs) = Range(Processed)
            /\ (fetch_returns > 0 /\ ~(opc = "done" /\ ret.fn = "returned")) =>
                  IsFraction(progress_bar, Len(Processed), 2 * Len(selected))
            /\ LoopOver => Len(loaded_docs) + Len(failed_docs) = Len(selected))
    /\ [][AtMost(progress_bar, progress_bar')]_vars

\* two batches of a run on 21 paths are done, with loaded and failed files:
\* the progress is 20 / 42
C24_Witness ==
    /\ opc = "loop"
    /\ Len(selected) = 21
    /\ fetch_returns = 2
    /\ Len(loaded_docs) = 10
    /\ Len(failed_docs) = 10
    /\ progress_bar = Fraction(20, 42)

\* the selected paths that are not in failed_docs, in order
NotFailed == SelectSeq(selected, LAMBDA q : q \notin Range(failed_docs))

\* C26: a run with failed files and at least one loaded Document still calls
\* the ingestion with exactly the loaded Documents; the ingestion is skipped
\* only when no Document was loaded.
C26_PartialFailureIngests ==
    /\ opc # "done" => call = NoCall
    /\ (opc = "done" /\ selected # <<>>) =>
          /\ loaded_docs # <<>> <=> call.fn = "ingest_documents_async"
          /\ loaded_docs = <<>> =>
                /\ call = NoCall
                /\ failed_docs = selected
                /\ notified = "No documents loaded to ingest."
          /\ loaded_docs # <<>> =>
                /\ call.documents = loaded_docs
                /\ call.repo_name = Some(run_repo_name)
                /\ LoadedPaths = NotFailed

\* a run on 21 paths with failed files in every batch ingested the others
C26_Witness ==
    /\ opc = "done"
    /\ Len(selected) = 21
    /\ Len(failed_docs) = 3
    /\ Len(loaded_docs) = 18
    /\ call.fn = "ingest_documents_async"
    /\ ret.fn = "returned"
    /\ Len(vectors) = 18
    /\ notified = "Ingestion Complete!"

\* --------------------------------------- the tasks of one call (SpecTasks)

\* task i is inside `async with semaphore` and has not ended
Holding(i) == tpc[i] \in {"fetching", "sleeping"}
Holders == {i \in Tasks : Holding(i)}

\* C31: a task holds its slot from before its first attempt to its terminal
\* state, backoff delays included: at most K tasks are started and not
\* terminal, and a task that waits for a slot starts only when fewer than K
\* tasks hold one.
C31_SlotHeldToTheEnd ==
    /\ [](pc = "gathering" =>
            /\ Cardinality(Holders) <= concurrent_requests
            /\ \A i \in Tasks : tpc[i] = "sleeping" => semaphore < concurrent_requests)
    /\ [][\A i \in Tasks :
            /\ Holding(i) => tpc'[i] \in {"fetching", "sleeping", "done"}
            /\ (tpc[i] \in {"new", "waiting"} /\ tpc'[i] \in {"fetching", "sleeping"}) =>
                  Cardinality(Holders) < concurrent_requests
            /\ (tpc[i] = "waiting" /\ Cardinality(Holders) >= concurrent_requests) =>
                  tpc'[i] = "waiting"]_vars

\* with one slot, the first task sleeps in backoff and the second one waits
C31_Witness ==
    /\ pc = "gathering"
    /\ concurrent_requests = 1
    /\ Len(file_paths) = 2
    /\ tpc[1] = "sleeping"
    /\ tpc[2] = "waiting"

\* C32: every acquired slot is released on every exit path of a task: the
\* number of free slots is always between 0 and K, it is K minus the number
\* of tasks inside the `async with`, and all K slots are free when load_files
\* returns.
C32_SlotsReleased ==
    (pc \in {"gathering", "returned"} /\ tpc # <<>>) =>
        /\ semaphore \in 0..concurrent_requests
        /\ semaphore = concurrent_requests - Cardinality(Holders)
        /\ pc = "returned" => semaphore = concurrent_requests

\* a call returned after one task ended by its last exception and another
\* by a success at a later attempt
C32_Witness ==
    /\ pc = "returned"
    /\ concurrent_requests >= 1
    /\ semaphore = concurrent_requests
    /\ \E i, j \in Tasks :
          /\ results[i].kind = "exc"
          /\ results[j].kind = "doc"
          /\ calls[j] >= 2

\* C33: the attempts of a task are sequential and bounded: none starts after
\* the task has ended, no delay follows the last failed attempt, one delay
\* lies between two consecutive attempts and has passed when the next one
\* starts, and for retries >= 0 a task makes between 1 and retries + 1
\* attempts.
C33_AttemptsSequentialAndBounded ==
    /\ [](retries >= 0 => \A i \in Tasks :
            /\ calls[i] <= retries + 1
            /\ tpc[i] \in {"new", "waiting"} => calls[i] = 0
            /\ tpc[i] = "fetching" => (calls[i] >= 1 /\ Len(delays[i]) = calls[i] - 1)
            /\ tpc[i] = "sleeping" => (calls[i] <= retries /\ Len(delays[i]) = calls[i])
            /\ tpc[i] = "done" => (calls[i] >= 1 /\ Len(delays[i]) = calls[i] - 1))
    /\ [][\A i \in Tasks :
            /\ calls'[i] \in {calls[i], calls[i] + 1}
            /\ tpc[i] = "done" => (calls'[i] = calls[i] /\ delays'[i] = delays[i]
                                     /\ results'[i] = results[i] /\ tpc'[i] = "done")
            /\ tpc[i] = "fetching" => calls'[i] = calls[i]
            /\ (tpc[i] = "sleeping" /\ calls'[i] # calls[i]) => remaining[i] <= 0]_vars

\* a task ended by the exception of its third attempt, after two delays
C33_Witness ==
    /\ retries = 2
    /\ \E i \in Tasks :
          /\ tpc[i] = "done"
          /\ results[i].kind = "exc"
          /\ calls[i] = 3
          /\ delays[i] = <<1, 2>>

\* the positions whose task ended with a Document, and the others
Loaded == {i \in Tasks : results[i].kind = "doc"}
NotLoaded == {i \in Tasks : results[i].kind # "doc"}

\* the k-th smallest element of the set of positions S
Nth(S, k) == CHOOSE i \in S : Cardinality({j \in S : j <= i}) = k

\* C34: in whatever order the tasks end, the returned lists follow the input
\* order: the k-th Document is the one of the k-th loaded position, the k-th
\* failed path the path of the k-th position that was not loaded.
C34_InputOrder ==
    pc = "returned" =>
        /\ Len(documents) = Cardinality(Loaded)
        /\ Len(failed_files) = Cardinality(NotLoaded)
        /\ \A k \in 1..Len(documents) :
              /\ documents[k] = results[Nth(Loaded, k)].doc
              /\ documents[k].file_path = CleanPath(file_paths[Nth(Loaded, k)])
        /\ \A k \in 1..Len(failed_files) :
              failed_files[k] = file_paths[Nth(NotLoaded, k)]

\* the task of the second path ended first, and the Documents are returned
\* in the order of the paths
C34_Witness ==
    /\ pc = "returned"
    /\ finished = <<2, 1>>
    /\ file_paths = <<<<"a">>, <<"b">>>>
    /\ Len(documents) = 2
    /\ documents[1].file_path = <<"a">>
    /\ documents[2].file_path = <<"b">>

\* --------------------------------------------------- termination (SpecLive)

\* C35: for a valid repo_id, K >= 1 and retries >= 0, when every attempt and
\* every delay ends and the scheduling is fair, load_files returns for every
\* path list, and no task waits for a slot forever.
C35_LoadFilesReturns ==
    /\ <>(pc = "returned")
    /\ pc = "gathering" ~> pc = "returned"
    /\ \A i \in 1..MaxFiles :
          (i \in Tasks /\ tpc[i] = "waiting") ~> (i \in Tasks /\ tpc[i] = "fetching")

\* a call on two paths with a single slot has returned, the second task
\* having waited for the slot of the first, which went through a backoff
C35_Witness ==
    /\ pc = "returned"
    /\ concurrent_requests = 1
    /\ file_paths = FirstPaths(2)
    /\ finished = <<1, 2>>
    /\ calls[1] >= 2
    /\ calls[2] >= 1

\* ------------------------------------------ failure isolation (SpecTasks)

\* what the attempt number a (from 0) of position i ends with: a function of
\* the replies to that position alone
OwnOutcome(i, a) ==
    FetchSingleFile(IF a < script[i] THEN replies[i].first ELSE replies[i].then,
                    file_paths[i], repo_name, MAIN)

\* the attempt of position i that ends its task: the first one that gives a
\* Document, or the last one
OwnLastAttempt(i) ==
    IF \E a \in 0..retries : OwnOutcome(i, a).kind = "doc"
    THEN CHOOSE a \in 0..retries :
            /\ OwnOutcome(i, a).kind = "doc"
            /\ \A b \in 0..(a - 1) : OwnOutcome(i, b).kind # "doc"
    ELSE retries

\* C36: the terminal outcome of a position and its number of attempts are
\* functions of the results of its own attempts: they are the same whatever
\* the other paths do and in whatever order the tasks run.
C36_FailureIsolation ==
    /\ \A i \in Tasks :
          tpc[i] = "done" =>
              IF retries < 0
              THEN results[i] = ReturnedNone /\ calls[i] = 0
              ELSE /\ results[i] = OwnOutcome(i, OwnLastAttempt(i))
                   /\ calls[i] = OwnLastAttempt(i) + 1
                   /\ Len(delays[i]) = OwnLastAttempt(i)
    /\ pc = "returned" =>
          \A i \in Tasks :
              IF retries >= 0 /\ OwnOutcome(i, OwnLastAttempt(i)).kind = "doc"
              THEN OwnOutcome(i, OwnLastAttempt(i)).doc \in Range(documents)
              ELSE file_paths[i] \in Range(failed_files)

\* two tasks that ran with a single slot: the first one failed on every
\* attempt, the second one then loaded its file at its second attempt
C36_Witness ==
    /\ pc = "returned"
    /\ concurrent_requests = 1
    /\ retries = 2
    /\ script = <<3, 1>>
    /\ calls = <<3, 2>>
    /\ failed_files = <<file_paths[1]>>
    /\ Len(documents) = 1

\* ------------------------------------- the run and the lister (SpecRun)

\* C37 (as claimed): for every repository input that the lister's
\* normalization accepts, the repo_name that run_ingestion derives from the
\* same input satisfies the fetcher's precondition, and the run does not end
\* with the configuration error.
C37_ListedInputRuns ==
    (opc # "idle" /\ selected # <<>> /\ ParseRepoName(url).some) =>
        /\ ValidRepoName(run_repo_name)
        /\ run_repo_name = ParseRepoName(url).value
        /\ opc # "raised"

\* C38 (as claimed): whenever run_ingestion has disabled the start button,
\* the button is eventually enabled again.
C38_ButtonEnabledAgain == (step1_btn = "disabled") ~> (step1_btn = "enabled")

\* ------------------------------------------ the tracked paths (SpecIngest)

\* the list handed to store_ingested_repo by the last ingestion
StoredFiles == ret.stored.value.ingested_files

\* the first position of the Document list whose tracked path is p
FirstOccurrence(docs, p) ==
    CHOOSE j \in 1..Len(docs) :
        /\ TrackedPath(docs[j]) = p
        /\ \A k \in 1..(j - 1) : TrackedPath(docs[k]) # p

\* C39: the list passed to store_ingested_repo holds each ingested file path
\* once, in the order of first occurrence in the Document list; its length
\* and the stored file_count are the number of distinct paths, also when
\* several Documents have the same path.
C39_EachPathOnce ==
    (call.fn = "ingest_documents_async" /\ ret.stored.some) =>
        /\ Len(StoredFiles) = Cardinality({TrackedPath(call.documents[j]) :
                                              j \in 1..Len(call.documents)})
        /\ Cardinality(Range(StoredFiles)) = Len(StoredFiles)
        /\ \A k \in 1..Len(StoredFiles) :
              \E j \in 1..Len(call.documents) : TrackedPath(call.documents[j]) = StoredFiles[k]
        /\ \A k, l \in 1..Len(StoredFiles) :
              k < l => FirstOccurrence(call.documents, StoredFiles[k])
                          < FirstOccurrence(call.documents, StoredFiles[l])
        /\ \A rec \in repos :
              (rec.id = call.repo_name.value /\ rec.ingested_files = StoredFiles) =>
                  rec.file_count = Len(StoredFiles)

\* two Documents of the same path were ingested: the record has one path
C39_Witness ==
    /\ call.fn = "ingest_documents_async"
    /\ call.repo_name = Some(<<"o", "/", "o">>)
    /\ call.documents = <<UntaggedDoc(<<"a">>), Doc(<<"a">>, <<"o", "/", "r">>)>>
    /\ ret.stored.some
    /\ StoredFiles = <<<<"a">>>>
    /\ \E rec \in repos : rec.id = <<"o", "/", "o">> /\ rec.file_count = 1

\* ------------------------------------------- the None result (SpecTasks)

\* C40: with retries >= 0 a task never ends with None: it ends with a
\* Document or with the exception of its last attempt; with a negative
\* retries setting every task ends with None without any attempt, and every
\* path is reported as failed.
C40_NoneOnlyForNegativeRetries ==
    /\ \A i \in Tasks :
          /\ results[i].kind = "none" => (retries < 0 /\ calls[i] = 0 /\ tpc[i] = "done")
          /\ (tpc[i] = "done" /\ retries >= 0) =>
                \/ results[i].kind = "doc"
                \/ results[i].kind = "exc" /\ calls[i] = retries + 1
          /\ (tpc[i] = "done" /\ retries < 0) => results[i] = ReturnedNone
    /\ (pc = "returned" /\ retries < 0) =>
          /\ requests = 0
          /\ documents = <<>>
          /\ failed_files = file_paths

\* a loader with retries = -1 returned two paths as failed without a request
C40_Witness ==
    /\ pc = "returned"
    /\ retries = -1
    /\ Len(file_paths) = 2
    /\ failed_files = file_paths
    /\ results = <<ReturnedNone, ReturnedNone>>
    /\ requests = 0
====
